---- MODULE Spec2Model ----
(***************************************************************************)
(* Duplicate detection of song titles (utils/similarity.py): the title     *)
(* normalizer, the song-name extractor, the similarity scorer and the two  *)
(* union-find clusterers find_duplicates and find_duplicates_smart.        *)
(*                                                                         *)
(* A title is a sequence of characters.  A character is a one-character    *)
(* string; a character outside ASCII is written by its code point, such as *)
(* "U+300A" for the left double angle bracket.  Indices into a batch are   *)
(* 0-based as in the source: a batch is a function on 0..n-1.              *)
(***************************************************************************)
EXTENDS Integers, Sequences, FiniteSets, TLC

VARIABLES
  videos,             \* the caller's batch: index 0..n-1 -> [title |-> ...]
  mode,               \* "basic": find_duplicates runs; "smart": find_duplicates_smart
  threshold,          \* the threshold argument of the running invocation
  pc,                 \* the position of the running invocation
  n, i, j,            \* len(videos) and the loop indices
  similarity,         \* the score of the pair just compared (-1: unbound)
  duplicate_pairs,    \* the list of (i, j, similarity) collected so far
  upos,               \* the position of the union loop in duplicate_pairs
  parent,             \* the union-find array
  groups,             \* the dict root -> list of indices, in insertion order
  duplicate_groups,   \* the first returned value
  duplicate_indices,  \* the second returned value
  ref,                \* an observer's record of one completed invocation
  arg1, arg2, ret,    \* a direct call of calculate_similarity and its result
  compared,           \* the pairs (i, j) the running invocation has scored
  res,                \* the string a direct call of normalize_title or
                      \* extract_song_name on arg1 returned
  pending,            \* union loop in any order: positions of duplicate_pairs
                      \* not yet united
  united,             \* union loop in any order: the calls union(x, y) made
  calls,              \* concurrent invocations: thread -> its arguments
  frames,             \* concurrent invocations: thread -> the locals of its call
  video_items,        \* gui_app.App.video_items: one record per track item
  download,           \* the locals of a call of downloader.download_media
  selected_folder_path, \* app.selected_folder_path, the module's global
  requests            \* /api/browse-folder: request -> its thread and dialog

vars ==
  << videos, mode, threshold, pc, n, i, j, similarity, duplicate_pairs, upos,
     parent, groups, duplicate_groups, duplicate_indices, ref, arg1, arg2, ret,
     compared, res, pending, united, calls, frames, video_items, download,
     selected_folder_path, requests >>

\* What only the desktop UI, the downloader and the web application use.
appvars == << video_items, download, selected_folder_path, requests >>

(***************************************************************************)
(* Characters and the character classes of Python's re module.             *)
(***************************************************************************)
UpperLetters ==
  << "A", "B", "C", "D", "E", "F", "G", "H", "I", "J", "K", "L", "M",
     "N", "O", "P", "Q", "R", "S", "T", "U", "V", "W", "X", "Y", "Z" >>

LowerLetters ==
  << "a", "b", "c", "d", "e", "f", "g", "h", "i", "j", "k", "l", "m",
     "n", "o", "p", "q", "r", "s", "t", "u", "v", "w", "x", "y", "z" >>

Digits == << "0", "1", "2", "3", "4", "5", "6", "7", "8", "9" >>

Range(f) == { f[e] : e \in DOMAIN f }

\* \d
DigitChars == Range(Digits)

\* \s (the whitespace the model's titles use)
SpaceChars == { " " }

\* The ideographs of the noise vocabulary: word characters outside ASCII.
CJKChars ==
  { "U+4E2D", "U+4E50", "U+4F1A", "U+4F34", "U+52A8", "U+52D5", "U+5531",
    "U+573A", "U+5834", "U+594F", "U+5B57", "U+5B8C", "U+5E55", "U+6001",
    "U+614B", "U+62FC", "U+635F", "U+640D", "U+6574", "U+6587", "U+65E0",
    "U+6703", "U+6A02", "U+6B4C", "U+6E05", "U+6F14", "U+7121", "U+7248",
    "U+73B0", "U+73FE", "U+7D14", "U+7EAF", "U+7FFB", "U+8A5E", "U+8BCD",
    "U+8CEA", "U+8D28", "U+9644", "U+97F3", "U+9AD8" }

\* Brackets and separators outside ASCII: corner brackets, lenticular
\* brackets, angle brackets, the en dash and the fullwidth colon.
CJKPunct ==
  { "U+300A", "U+300B", "U+300C", "U+300D", "U+300E", "U+300F",
    "U+3010", "U+3011", "U+2013", "U+FF1A" }

\* Letters of the Latin-1 supplement (code points 128..255): E acute, in
\* upper and in lower case.
Latin1Upper == "U+00C9"
Latin1Lower == "U+00E9"
Latin1Chars == { Latin1Upper, Latin1Lower }

\* An uppercase letter that has no lowercase form: the mathematical bold
\* capital A, which str.lower() leaves as it is and str.isupper() accepts.
UpperOnlyChars == { "U+1D400" }

NonAscii == CJKChars \cup CJKPunct \cup Latin1Chars \cup UpperOnlyChars

\* \w (str patterns are Unicode patterns: ideographs are word characters)
WordChars ==
  Range(UpperLetters) \cup Range(LowerLetters) \cup DigitChars \cup {"_"}
    \cup CJKChars \cup Latin1Chars \cup UpperOnlyChars

\* str.lower() on one character
Lower(c) ==
  IF \E k \in 1..26 : UpperLetters[k] = c
    THEN LowerLetters[CHOOSE k \in 1..26 : UpperLetters[k] = c]
    ELSE IF c = Latin1Upper THEN Latin1Lower
    ELSE c

RECURSIVE lower(_)
\* str.lower()
lower(s) ==
  IF s = << >> THEN << >> ELSE << Lower(Head(s)) >> \o lower(Tail(s))

\* str.isupper() on one character
IsUpper(c) == c \in Range(UpperLetters) \cup { Latin1Upper } \cup UpperOnlyChars

RECURSIVE LStrip(_)
LStrip(s) ==
  IF s # <<>> /\ Head(s) \in SpaceChars THEN LStrip(Tail(s)) ELSE s

RECURSIVE RStrip(_)
RStrip(s) ==
  IF s # <<>> /\ s[Len(s)] \in SpaceChars
    THEN RStrip(SubSeq(s, 1, Len(s) - 1))
    ELSE s

\* str.strip()
strip(s) == RStrip(LStrip(s))

(***************************************************************************)
(* Regular expressions as trees, matched the way a backtracking matcher    *)
(* does: Ends(r, s, p) lists, in the order the matcher tries them, the     *)
(* positions at which a match of r starting at position p of s can end.    *)
(* Matching ignores case (flags=re.IGNORECASE).                            *)
(***************************************************************************)
Eps == [k |-> "eps"]
Bol == [k |-> "bol"]
Eol == [k |-> "eol"]
AnyChar == [k |-> "any"]
Lit(cs) == [k |-> "lit", cs |-> cs]
Cls(S) == [k |-> "cls", s |-> S]
Cat(a, b) == [k |-> "cat", a |-> a, b |-> b]
Alt(a, b) == [k |-> "alt", a |-> a, b |-> b]
Star(a) == [k |-> "star", a |-> a, greedy |-> TRUE]
LazyStar(a) == [k |-> "star", a |-> a, greedy |-> FALSE]
Opt(a) == Alt(a, Eps)

RECURSIVE FlatMapEnds(_, _, _)
RECURSIVE Ends(_, _, _)
Ends(r, s, p) ==
  CASE r.k = "eps" -> << p >>
    [] r.k = "bol" -> IF p = 1 THEN << p >> ELSE << >>
    [] r.k = "eol" -> IF p = Len(s) + 1 THEN << p >> ELSE << >>
    [] r.k = "any" -> IF p <= Len(s) THEN << p + 1 >> ELSE << >>
    [] r.k = "cls" ->
         IF p <= Len(s) /\ (s[p] \in r.s \/ Lower(s[p]) \in r.s)
           THEN << p + 1 >> ELSE << >>
    [] r.k = "lit" ->
         IF p + Len(r.cs) - 1 <= Len(s)
              /\ \A q \in 1..Len(r.cs) : Lower(s[p + q - 1]) = Lower(r.cs[q])
           THEN << p + Len(r.cs) >> ELSE << >>
    [] r.k = "cat" -> FlatMapEnds(r.b, s, Ends(r.a, s, p))
    [] r.k = "alt" -> Ends(r.a, s, p) \o Ends(r.b, s, p)
    [] r.k = "star" ->
         LET once == SelectSeq(Ends(r.a, s, p), LAMBDA e : e > p)
             more == FlatMapEnds(r, s, once)
         IN  IF r.greedy THEN more \o << p >> ELSE << p >> \o more

FlatMapEnds(r, s, ps) ==
  IF ps = << >> THEN << >>
  ELSE Ends(r, s, Head(ps)) \o FlatMapEnds(r, s, Tail(ps))

\* The end of the match the matcher picks at p, or 0 when there is none.
MatchEnd(r, s, p) ==
  LET es == Ends(r, s, p) IN IF es = << >> THEN 0 ELSE Head(es)

\* re.search: the leftmost position with a match and the match's end,
\* or << 0, 0 >>.
re_search(r, s) ==
  LET starts == { p \in 1..Len(s) + 1 : MatchEnd(r, s, p) # 0 }
  IN  IF starts = {} THEN << 0, 0 >>
      ELSE LET p == CHOOSE q \in starts : \A q2 \in starts : q <= q2
           IN  << p, MatchEnd(r, s, p) >>

\* re.sub(r, repl, s) for a pattern that matches no empty string: every
\* leftmost non-overlapping match, scanning from p, is replaced by repl.
RECURSIVE SubFrom(_, _, _, _)
SubFrom(r, repl, s, p) ==
  IF p > Len(s) THEN << >>
  ELSE LET e == MatchEnd(r, s, p)
       IN  IF e > p THEN repl \o SubFrom(r, repl, s, e)
           ELSE << s[p] >> \o SubFrom(r, repl, s, p + 1)

re_sub(r, repl, s) == SubFrom(r, repl, s, 1)

(***************************************************************************)
(* normalize_title                                                         *)
(***************************************************************************)
\* Python's None as a title: no sequence of characters equals it.
None == << "None" >>

\* not title
IsFalsy(title) == title = None \/ title = << >>

\* Common patterns to remove from titles, in the order of the source list.
NOISE_PATTERNS ==
  << Cat(Lit(<<"(", "o", "f", "f", "i", "c", "i", "a", "l">>), Cat(Star(Cls(SpaceChars)), Cat(Opt(Cat(Lit(<<"m", "u", "s", "i", "c">>), Star(Cls(SpaceChars)))), Lit(<<"v", "i", "d", "e", "o", ")">>)))),  \* \(official\s*(music\s*)?video\)
     Cat(Lit(<<"(", "o", "f", "f", "i", "c", "i", "a", "l">>), Cat(Star(Cls(SpaceChars)), Lit(<<"a", "u", "d", "i", "o", ")">>))),  \* \(official\s*audio\)
     Cat(Lit(<<"(", "l", "y", "r", "i", "c">>), Cat(Star(Cls(SpaceChars)), Lit(<<"v", "i", "d", "e", "o", ")">>))),  \* \(lyric\s*video\)
     Cat(Lit(<<"(", "l", "y", "r", "i", "c">>), Cat(Opt(Lit(<<"s">>)), Lit(<<")">>))),  \* \(lyrics?\)
     Lit(<<"(", "m", "v", ")">>),  \* \(mv\)
     Lit(<<"(", "a", "u", "d", "i", "o", ")">>),  \* \(audio\)
     Cat(Lit(<<"[", "o", "f", "f", "i", "c", "i", "a", "l">>), Cat(Star(Cls(SpaceChars)), Cat(Opt(Cat(Lit(<<"m", "u", "s", "i", "c">>), Star(Cls(SpaceChars)))), Lit(<<"v", "i", "d", "e", "o", "]">>)))),  \* \[official\s*(music\s*)?video\]
     Cat(Lit(<<"[", "o", "f", "f", "i", "c", "i", "a", "l">>), Cat(Star(Cls(SpaceChars)), Lit(<<"a", "u", "d", "i", "o", "]">>))),  \* \[official\s*audio\]
     Cat(Lit(<<"[", "l", "y", "r", "i", "c">>), Cat(Star(Cls(SpaceChars)), Lit(<<"v", "i", "d", "e", "o", "]">>))),  \* \[lyric\s*video\]
     Cat(Lit(<<"[", "l", "y", "r", "i", "c">>), Cat(Opt(Lit(<<"s">>)), Lit(<<"]">>))),  \* \[lyrics?\]
     Lit(<<"[", "m", "v", "]">>),  \* \[mv\]
     Lit(<<"[", "a", "u", "d", "i", "o", "]">>),  \* \[audio\]
     Cat(Lit(<<"o", "f", "f", "i", "c", "i", "a", "l">>), Cat(Star(Cls(SpaceChars)), Cat(Lit(<<"m", "u", "s", "i", "c">>), Cat(Star(Cls(SpaceChars)), Lit(<<"v", "i", "d", "e", "o">>))))),  \* official\s*music\s*video
     Cat(Lit(<<"o", "f", "f", "i", "c", "i", "a", "l">>), Cat(Star(Cls(SpaceChars)), Lit(<<"v", "i", "d", "e", "o">>))),  \* official\s*video
     Cat(Lit(<<"o", "f", "f", "i", "c", "i", "a", "l">>), Cat(Star(Cls(SpaceChars)), Lit(<<"a", "u", "d", "i", "o">>))),  \* official\s*audio
     Cat(Lit(<<"l", "y", "r", "i", "c">>), Cat(Star(Cls(SpaceChars)), Lit(<<"v", "i", "d", "e", "o">>))),  \* lyric\s*video
     Cat(Lit(<<"|">>), Cat(Star(AnyChar), Eol)),  \* \|.*$
     Cat(Cat(Cls(DigitChars), Cat(Cls(DigitChars), Cat(Cls(DigitChars), Cls(DigitChars)))), Cat(Star(Cls(SpaceChars)), Cat(Lit(<<"m">>), Alt(Lit(<<"v">>), Cat(Lit(<<"u", "s", "i", "c">>), Cat(Star(Cls(SpaceChars)), Lit(<<"v", "i", "d", "e", "o">>))))))),  \* \d{4}\s*(mv|music\s*video)
     Alt(Lit(<<"h", "d">>), Alt(Lit(<<"4", "k">>), Alt(Lit(<<"1", "0", "8", "0", "p">>), Lit(<<"7", "2", "0", "p">>)))),  \* hd|4k|1080p|720p
     Cat(Lit(<<"f", "e", "a", "t">>), Cat(Opt(Lit(<<".">>)), Cat(Star(Cls(SpaceChars)), Cat(Cls(WordChars \cup SpaceChars), Star(Cls(WordChars \cup SpaceChars)))))),  \* feat\.?\s*[\w\s]+
     Cat(Lit(<<"f", "t">>), Cat(Opt(Lit(<<".">>)), Cat(Star(Cls(SpaceChars)), Cat(Cls(WordChars \cup SpaceChars), Star(Cls(WordChars \cup SpaceChars)))))),  \* ft\.?\s*[\w\s]+
     Cat(Lit(<<"p", "r", "o", "d">>), Cat(Opt(Lit(<<".">>)), Cat(Star(Cls(SpaceChars)), Cat(Cls(WordChars \cup SpaceChars), Star(Cls(WordChars \cup SpaceChars)))))),  \* prod\.?\s*[\w\s]+
     Cat(Lit(<<"U+3010">>), Cat(LazyStar(AnyChar), Lit(<<"U+3011">>))),  \* \u3010.*?\u3011
     Cat(Lit(<<"U+300C">>), Cat(LazyStar(AnyChar), Lit(<<"U+300D">>))),  \* \u300c.*?\u300d
     Cat(Lit(<<"U+300E">>), Cat(LazyStar(AnyChar), Lit(<<"U+300F">>))),  \* \u300e.*?\u300f
     Cat(Lit(<<"U+300A">>), Cat(LazyStar(AnyChar), Lit(<<"U+300B">>))),  \* \u300a.*?\u300b
     Lit(<<"U+52A8", "U+6001", "U+6B4C", "U+8BCD">>),  \* \u52a8\u6001\u6b4c\u8bcd
     Lit(<<"U+52D5", "U+614B", "U+6B4C", "U+8A5E">>),  \* \u52d5\u614b\u6b4c\u8a5e
     Cat(Lit(<<"U+6B4C", "U+8BCD">>), Opt(Lit(<<"U+7248">>))),  \* \u6b4c\u8bcd\u7248?
     Cat(Lit(<<"U+6B4C", "U+8A5E">>), Opt(Lit(<<"U+7248">>))),  \* \u6b4c\u8a5e\u7248?
     Lit(<<"U+5B8C", "U+6574", "U+7248">>),  \* \u5b8c\u6574\u7248
     Cat(Lit(<<"U+9AD8", "U+6E05">>), Opt(Lit(<<"U+7248">>))),  \* \u9ad8\u6e05\u7248?
     Lit(<<"U+9AD8", "U+97F3", "U+8CEA">>),  \* \u9ad8\u97f3\u8cea
     Lit(<<"U+9AD8", "U+97F3", "U+8D28">>),  \* \u9ad8\u97f3\u8d28
     Lit(<<"U+7121", "U+640D">>),  \* \u7121\u640d
     Lit(<<"U+65E0", "U+635F">>),  \* \u65e0\u635f
     Cat(Lit(<<"l", "y", "r", "i", "c">>), Opt(Lit(<<"s">>))),  \* lyrics?
     Lit(<<"p", "i", "n", "y", "i", "n">>),  \* pinyin
     Lit(<<"U+62FC", "U+97F3">>),  \* \u62fc\u97f3
     Cat(Lit(<<"v", "i", "e", "t">>), Cat(Star(Cls(SpaceChars)), Lit(<<"s", "u", "b">>))),  \* viet\s*sub
     Lit(<<"v", "i", "e", "t", "s", "u", "b">>),  \* vietsub
     Lit(<<"U+4E2D", "U+6587", "U+5B57", "U+5E55">>),  \* \u4e2d\u6587\u5b57\u5e55
     Lit(<<"U+9644", "U+8A5E">>),  \* \u9644\u8a5e
     Lit(<<"U+9644", "U+8BCD">>),  \* \u9644\u8bcd
     Lit(<<"U+7D14", "U+97F3", "U+6A02">>),  \* \u7d14\u97f3\u6a02
     Lit(<<"U+7EAF", "U+97F3", "U+4E50">>),  \* \u7eaf\u97f3\u4e50
     Lit(<<"U+4F34", "U+594F">>),  \* \u4f34\u594f
     Lit(<<"c", "o", "v", "e", "r">>),  \* cover
     Lit(<<"U+7FFB", "U+5531">>),  \* \u7ffb\u5531
     Lit(<<"l", "i", "v", "e">>),  \* live
     Lit(<<"U+73FE", "U+5834">>),  \* \u73fe\u5834
     Lit(<<"U+73B0", "U+573A">>),  \* \u73b0\u573a
     Lit(<<"U+6F14", "U+5531", "U+6703">>),  \* \u6f14\u5531\u6703
     Lit(<<"U+6F14", "U+5531", "U+4F1A">>) >>  \* \u6f14\u5531\u4f1a

RECURSIVE ApplyNoise(_, _)
\* for pattern in NOISE_PATTERNS: normalized = re.sub(pattern, '', normalized)
ApplyNoise(s, k) ==
  IF k > Len(NOISE_PATTERNS) THEN s
  ELSE LET t == re_sub(NOISE_PATTERNS[k], << >>, s)
       IN  IF Len(t) = 0 THEN t ELSE ApplyNoise(t, k + 1)

\* r'\s+'
WhitespaceRun == Cat(Cls(SpaceChars), Star(Cls(SpaceChars)))

\* r'^[\s\-\|:]+|[\s\-\|:]+$'
EdgePunct ==
  LET P == Cls(SpaceChars \cup { "-", "|", ":" })
  IN  Alt(Cat(Bol, Cat(P, Star(P))), Cat(P, Cat(Star(P), Eol)))

normalize_title(title) ==
  IF IsFalsy(title) THEN << >>
  ELSE LET lowered == strip(lower(title))
           denoised == ApplyNoise(lowered, 1)
           collapsed == strip(re_sub(WhitespaceRun, << " " >>, denoised))
       IN  re_sub(EdgePunct, << >>, collapsed)

(***************************************************************************)
(* extract_song_name                                                       *)
(***************************************************************************)
\* r'[\u300a\u300c\u3010](.+?)[\u300b\u300d\u3011]': any opening bracket, a shortest non-empty
\* content, any closing bracket.
BracketSpan ==
  Cat(Cls({ "U+300A", "U+300C", "U+3010" }),
      Cat(Cat(AnyChar, LazyStar(AnyChar)),
          Cls({ "U+300B", "U+300D", "U+3011" })))

separators ==
  << << " ", "-", " " >>, << " ", "|", " " >>, << " ", "U+2013", " " >>,
     << "U+FF1A" >>, << ":", " " >> >>

\* The first position at which sep occurs in s, or 0 (sep in title).
IndexOf(sep, s) ==
  LET at == { p \in 1..(Len(s) - Len(sep) + 1) :
                SubSeq(s, p, p + Len(sep) - 1) = sep }
  IN  IF at = {} THEN 0 ELSE CHOOSE p \in at : \A q \in at : p <= q

\* title.split(sep, 1)[1]
AfterFirst(sep, s) == SubSeq(s, IndexOf(sep, s) + Len(sep), Len(s))

RECURSIVE SplitOnSeparators(_, _)
\* for sep in separators: if sep in title: return parts[1].strip()
SplitOnSeparators(title, k) ==
  IF k > Len(separators) THEN title
  ELSE IF IndexOf(separators[k], title) # 0
         THEN strip(AfterFirst(separators[k], title))
         ELSE SplitOnSeparators(title, k + 1)

extract_song_name(title) ==
  IF IsFalsy(title) THEN << >>
  ELSE LET m == re_search(BracketSpan, title)
       IN  IF m[1] # 0
             THEN strip(SubSeq(title, m[1] + 1, m[2] - 2))
             ELSE SplitOnSeparators(title, 1)

(***************************************************************************)
(* fuzz.token_set_ratio of the fuzzywuzzy library, as the scorer calls it  *)
(* (force_ascii and full_process at their defaults, difflib's              *)
(* SequenceMatcher for the ratio).                                         *)
(***************************************************************************)
\* utils.asciidammit: on Python 3 the translation table holds the code
\* points 128..255 only, so those are dropped and every other character,
\* an ideograph included, is kept.
asciidammit(s) == SelectSeq(s, LAMBDA c : c \notin Latin1Chars)

RECURSIVE replace_non_letters_non_numbers_with_whitespace(_)
\* StringProcessor.replace_non_letters_non_numbers_with_whitespace:
\* every character that is no word character becomes a space.
replace_non_letters_non_numbers_with_whitespace(s) ==
  IF s = << >> THEN << >>
  ELSE << IF Head(s) \in WordChars THEN Head(s) ELSE " " >>
         \o replace_non_letters_non_numbers_with_whitespace(Tail(s))

\* utils.full_process(s, force_ascii=True)
full_process(s) ==
  strip(lower(replace_non_letters_non_numbers_with_whitespace(asciidammit(s))))

RECURSIVE split(_)
\* str.split(): the maximal runs of non-whitespace, in order.
split(s) ==
  LET t == LStrip(s)
  IN  IF t = << >> THEN << >>
      ELSE LET stops == { p \in 1..Len(t) : t[p] \in SpaceChars }
               e == IF stops = {} THEN Len(t) + 1
                    ELSE CHOOSE p \in stops : \A q \in stops : p <= q
           IN  << SubSeq(t, 1, e - 1) >> \o split(SubSeq(t, e, Len(t)))

\* The ideographs in code-point order.
CJKOrder ==
  << "U+4E2D", "U+4E50", "U+4F1A", "U+4F34", "U+52A8", "U+52D5", "U+5531",
     "U+573A", "U+5834", "U+594F", "U+5B57", "U+5B8C", "U+5E55", "U+6001",
     "U+614B", "U+62FC", "U+635F", "U+640D", "U+6574", "U+6587", "U+65E0",
     "U+6703", "U+6A02", "U+6B4C", "U+6E05", "U+6F14", "U+7121", "U+7248",
     "U+73B0", "U+73FE", "U+7D14", "U+7EAF", "U+7FFB", "U+8A5E", "U+8BCD",
     "U+8CEA", "U+8D28", "U+9644", "U+97F3", "U+9AD8" >>

\* The code-point order of the characters a processed token can hold.
CharOrder ==
  Digits \o << "_" >> \o LowerLetters \o CJKOrder \o << "U+1D400" >>

CharRank(c) == CHOOSE k \in 1..Len(CharOrder) : CharOrder[k] = c

RECURSIVE StrLess(_, _)
\* a < b on strings
StrLess(a, b) ==
  IF b = << >> THEN FALSE
  ELSE IF a = << >> THEN TRUE
  ELSE IF Head(a) = Head(b) THEN StrLess(Tail(a), Tail(b))
  ELSE CharRank(Head(a)) < CharRank(Head(b))

RECURSIVE sorted(_)
\* sorted(tokens)
sorted(S) ==
  IF S = {} THEN << >>
  ELSE LET m == CHOOSE x \in S : \A y \in S \ {x} : StrLess(x, y)
       IN  << m >> \o sorted(S \ {m})

RECURSIVE join(_)
\* " ".join(tokens)
join(ts) ==
  IF ts = << >> THEN << >>
  ELSE IF Len(ts) = 1 THEN ts[1]
  ELSE ts[1] \o << " " >> \o join(Tail(ts))

RECURSIVE CommonRun(_, _, _, _, _, _)
\* The length of the common run of a from ai and b from bj within the windows.
CommonRun(a, ai, ahi, b, bj, bhi) ==
  IF ai < ahi /\ bj < bhi /\ a[ai] = b[bj]
    THEN 1 + CommonRun(a, ai + 1, ahi, b, bj + 1, bhi)
    ELSE 0

\* SequenceMatcher.find_longest_match on a[alo..ahi-1], b[blo..bhi-1]: a
\* longest common block, the one starting earliest in a and, among those,
\* earliest in b.
find_longest_match(a, alo, ahi, b, blo, bhi) ==
  LET cand == { c \in (alo..ahi - 1) \X (blo..bhi - 1) : a[c[1]] = b[c[2]] }
      size(c) == CommonRun(a, c[1], ahi, b, c[2], bhi)
  IN  IF cand = {} THEN [i |-> alo, j |-> blo, size |-> 0]
      ELSE LET best == CHOOSE c \in cand : \A d \in cand :
                          \/ size(c) > size(d)
                          \/ /\ size(c) = size(d)
                             /\ \/ c[1] < d[1]
                                \/ c[1] = d[1] /\ c[2] <= d[2]
           IN  [i |-> best[1], j |-> best[2], size |-> size(best)]

RECURSIVE Matches(_, _, _, _, _, _)
\* The number of matched characters over SequenceMatcher's matching
\* blocks: the longest block, then the blocks to its left and to its right.
Matches(a, alo, ahi, b, blo, bhi) ==
  IF alo >= ahi \/ blo >= bhi THEN 0
  ELSE LET m == find_longest_match(a, alo, ahi, b, blo, bhi)
       IN  IF m.size = 0 THEN 0
           ELSE m.size + Matches(a, alo, m.i, b, blo, m.j)
                  + Matches(a, m.i + m.size, ahi, b, m.j + m.size, bhi)

\* utils.intr(100 * 2.0 * M / T): round half to even.
intr(num, den) ==
  LET q == num \div den
      r == num % den
  IN  IF 2 * r < den THEN q
      ELSE IF 2 * r > den THEN q + 1
      ELSE IF q % 2 = 0 THEN q ELSE q + 1

\* fuzz.ratio: 100 for equal strings, 0 when one is empty.
ratio(s1, s2) ==
  IF s1 = s2 THEN 100
  ELSE IF Len(s1) = 0 \/ Len(s2) = 0 THEN 0
  ELSE intr(200 * Matches(s1, 1, Len(s1) + 1, s2, 1, Len(s2) + 1),
            Len(s1) + Len(s2))

Max(S) == CHOOSE x \in S : \A y \in S : x >= y

token_set_ratio(s1, s2) ==
  LET p1 == full_process(s1)
      p2 == full_process(s2)
  IN  IF Len(p1) = 0 \/ Len(p2) = 0 THEN 0
      ELSE LET tokens1 == Range(split(p1))
               tokens2 == Range(split(p2))
               sorted_sect == join(sorted(tokens1 \cap tokens2))
               sorted_1to2 == join(sorted(tokens1 \ tokens2))
               sorted_2to1 == join(sorted(tokens2 \ tokens1))
               combined_1to2 == strip(sorted_sect \o << " " >> \o sorted_1to2)
               combined_2to1 == strip(sorted_sect \o << " " >> \o sorted_2to1)
           IN  Max({ ratio(strip(sorted_sect), combined_1to2),
                     ratio(strip(sorted_sect), combined_2to1),
                     ratio(combined_1to2, combined_2to1) })

(***************************************************************************)
(* calculate_similarity                                                    *)
(***************************************************************************)
\* Equal normalized titles answered 100 before the empty check.
CalculateSimilarityEqualFirst(title1, title2) ==
  LET norm1 == normalize_title(title1)
      norm2 == normalize_title(title2)
  IN  IF norm1 = norm2 THEN 100
      ELSE IF norm1 = << >> \/ norm2 = << >> THEN 0
      ELSE token_set_ratio(norm1, norm2)

calculate_similarity(title1, title2) ==
  LET norm1 == normalize_title(title1)
      norm2 == normalize_title(title2)
  IN  IF norm1 = << >> \/ norm2 = << >> THEN 0
      ELSE token_set_ratio(norm1, norm2)

(***************************************************************************)
(* The batches of the model.                                               *)
(***************************************************************************)
\* The longest batch.
MaxN == 3

\* "A - x y"
TitleArtistSong == << "A", " ", "-", " ", "x", " ", "y" >>
\* "x"
TitleSong == << "x" >>
\* "x z"
TitleSongVariant == << "x", " ", "z" >>
\* "(MV)": nothing but noise
TitleNoise == << "(", "M", "V", ")" >>
\* "q - (MV)": the part after the separator is nothing but noise
TitleArtistNoise == << "q", " ", "-", " ", "(", "M", "V", ")" >>
\* "C<x>" with the angle brackets U+300A and U+300B
TitleBracketed == << "C", "U+300A", "x", "U+300B" >>

\* "aaaba" and "abaab": the scorer gives 80 for the first against the
\* second and 60 for the second against the first
TitleAaaba == << "a", "a", "a", "b", "a" >>
TitleAbaab == << "a", "b", "a", "a", "b" >>

Titles ==
  { TitleArtistSong, TitleSong, TitleSongVariant, TitleNoise,
    TitleArtistNoise, TitleBracketed, TitleAaaba, TitleAbaab }

\* def find_duplicates(videos, threshold=80)
DefaultThreshold == 80
\* def find_duplicates_smart(videos, threshold=85)
SmartDefaultThreshold == 85

\* Thresholds on both sides of, and equal to, every score the titles reach.
Thresholds == { 0, 50, 67, DefaultThreshold, SmartDefaultThreshold, 100 }

Batches ==
  UNION { [0..(m - 1) -> { [title |-> t] : t \in Titles }] : m \in 0..MaxN }

\* len(videos)
len(v) == Cardinality(DOMAIN v)

(***************************************************************************)
(* The scorer on the titles of the model, each value computed once by the  *)
(* operators above.                                                        *)
(***************************************************************************)
\* calculate_similarity(title1, title2)
SimilarityOf ==
  [p \in Titles \X Titles |-> calculate_similarity(p[1], p[2])] @@ << >>

\* normalize_title(extract_song_name(title))
SongNormOf ==
  [t \in Titles |-> normalize_title(extract_song_name(t))] @@ << >>

\* fuzz.token_set_ratio(norm1, norm2) on the normalized song names
SongRatioOf ==
  [p \in Titles \X Titles |->
     token_set_ratio(SongNormOf[p[1]], SongNormOf[p[2]])] @@ << >>

\* normalize_title(title)
NormOf == [t \in Titles |-> normalize_title(t)] @@ << >>

\* calculate_similarity on the extracted song names of two titles
ExtractedSimilarityOf ==
  [p \in Titles \X Titles |->
     calculate_similarity(extract_song_name(p[1]), extract_song_name(p[2]))]
    @@ << >>

\* The second title read at index i instead of j.
PairScoreSameIndex(v, a, b) == SimilarityOf[<< v[a].title, v[a].title >>]

\* calculate_similarity(videos[i]['title'], videos[j]['title'])
PairScore(v, a, b) == SimilarityOf[<< v[a].title, v[b].title >>]

\* similarity > threshold
QualifiesStrict(sim, th) == sim > th

\* similarity <= threshold
QualifiesAtMost(sim, th) == sim <= th

\* similarity >= threshold
Qualifies(sim, th) == sim >= th

\* not norm1 or not norm2
SmartSkips(v, a, b) ==
  SongNormOf[v[a].title] = << >> \/ SongNormOf[v[b].title] = << >>

\* fuzz.token_set_ratio(norm1, norm2)
SmartPairScore(v, a, b) == SongRatioOf[<< v[a].title, v[b].title >>]

(***************************************************************************)
(* Union-find and grouping.                                                *)
(***************************************************************************)
\* A pair list that outlives the call: the pairs of the call before.
StalePairs == duplicate_pairs

\* duplicate_pairs = []
InitPairs == << >>

\* parent = list(range(n))
InitParent(m) == [e \in 0..(m - 1) |-> e]

\* find(x) returning parent[x] without climbing to the root.
FindParentOnly(par, x) == [root |-> par[x], parent |-> par]

RECURSIVE FindReturnsArgument(_, _)
\* find(x) ending in "return x".
FindReturnsArgument(par, x) ==
  IF par[x] # x
    THEN LET r == FindReturnsArgument(par, par[x])
         IN  [root |-> x, parent |-> [r.parent EXCEPT ![x] = r.root]]
    ELSE [root |-> x, parent |-> par]

RECURSIVE find(_, _)
\* find(x) with path compression: the root of x and the array afterwards.
find(par, x) ==
  IF par[x] # x
    THEN LET r == find(par, par[x])
         IN  [root |-> r.root, parent |-> [r.parent EXCEPT ![x] = r.root]]
    ELSE [root |-> x, parent |-> par]

\* parent[x] = y without looking up the roots.
UnionNoFind(par, x, y) == [par EXCEPT ![x] = y]

\* union(x, y): the array afterwards.
union(par, x, y) ==
  LET fx == find(par, x)
      fy == find(fx.parent, y)
  IN  IF fx.root # fy.root
        THEN [fy.parent EXCEPT ![fx.root] = fy.root]
        ELSE fy.parent

\* if root not in groups: groups[root] = [root]; groups[root].append(i)
AddToGroupSeeded(gs, root, e) ==
  IF \E g \in 1..Len(gs) : gs[g].root = root
    THEN LET g == CHOOSE h \in 1..Len(gs) : gs[h].root = root
         IN  [gs EXCEPT ![g].indices = Append(@, e)]
    ELSE Append(gs, [root |-> root, indices |-> << root, e >>])

\* if root not in groups: groups[root] = []; groups[root].append(i)
AddToGroup(gs, root, e) ==
  IF \E g \in 1..Len(gs) : gs[g].root = root
    THEN LET g == CHOOSE h \in 1..Len(gs) : gs[h].root = root
         IN  [gs EXCEPT ![g].indices = Append(@, e)]
    ELSE Append(gs, [root |-> root, indices |-> << e >>])

\* len(indices) > 0
IsNonEmptyGroup(indices) == Len(indices) > 0

\* len(indices) > 1
IsDuplicateGroup(indices) == Len(indices) > 1

\* list(groups.values()), without the filter
SelectAllGroups(gs) == SubSeq([g \in 1..Len(gs) |-> gs[g].indices], 1, Len(gs))

RECURSIVE SelectGroups(_)
\* [indices for indices in groups.values() if len(indices) > 1]
SelectGroups(gs) ==
  IF gs = << >> THEN << >>
  ELSE (IF IsDuplicateGroup(Head(gs).indices)
          THEN << Head(gs).indices >> ELSE << >>)
         \o SelectGroups(Tail(gs))

\* duplicate_indices.add(group[0])
FlaggedFirstOnly(dgs) == { dgs[g][1] : g \in 1..Len(dgs) }

\* for group in duplicate_groups: duplicate_indices.update(group)
FlaggedOf(dgs) == UNION { Range(dgs[g]) : g \in 1..Len(dgs) }

(***************************************************************************)
(* find_duplicates and find_duplicates_smart, one loop iteration a step.   *)
(* The two functions differ in the comparison loop only.                   *)
(***************************************************************************)
simvars == << arg1, arg2, ret >>

\* Nothing of the desktop UI, the downloader or the web application runs.
AppIdle ==
  /\ video_items = << >>
  /\ download = [pc |-> "idle"]
  /\ selected_folder_path = None
  /\ requests = << >>

\* What only the direct calls, the free-order union loop and the concurrent
\* invocations use.
auxvars == << res, pending, united, calls, frames >>

\* The inner loop as "for j in range(i, n)".
AdvanceFromSame ==
  IF j + 1 < n
    THEN i' = i /\ j' = j + 1 /\ pc' = "score"
    ELSE IF i + 2 < n
      THEN i' = i + 1 /\ j' = i + 1 /\ pc' = "score"
      ELSE i' = n - 1 /\ j' = j /\ pc' = "build"

\* The loops "for i in range(n): for j in range(i + 1, n)" move on to the
\* next pair, or end.
Advance ==
  IF j + 1 < n
    THEN i' = i /\ j' = j + 1 /\ pc' = "score"
    ELSE IF i + 2 < n
      THEN i' = i + 1 /\ j' = i + 2 /\ pc' = "score"
      ELSE i' = n - 1 /\ j' = j /\ pc' = "build"

\* A call: n = len(videos), duplicate_pairs = [], and the first pair.  The
\* observer notes a call whose arguments differ from the observed ones.
Enter(m, th) ==
  /\ pc \in { "idle", "done" }
  /\ mode' = m
  /\ threshold' = th
  /\ n' = len(videos)
  /\ duplicate_pairs' = InitPairs
  /\ i' = 0
  /\ j' = 1
  /\ pc' = IF len(videos) >= 2 THEN "score" ELSE "build"
  /\ similarity' = -1
  /\ upos' = 0
  /\ parent' = << >>
  /\ groups' = << >>
  /\ duplicate_groups' = << >>
  /\ duplicate_indices' = {}
  /\ ref' = IF ref # << >> /\ (m # ref[1].mode \/ th # ref[1].threshold)
             THEN << [ref[1] EXCEPT !.other = TRUE] >>
             ELSE ref
  /\ compared' = << >>
  /\ UNCHANGED << videos, appvars, simvars, auxvars >>

FindDuplicates(th) == Enter("basic", th)

FindDuplicatesSmart(th) == Enter("smart", th)

\* similarity = calculate_similarity(videos[i]['title'], videos[j]['title'])
ScorePair ==
  /\ pc = "score"
  /\ mode = "basic"
  /\ similarity' = PairScore(videos, i, j)
  /\ compared' = Append(compared, << i, j >>)
  /\ pc' = "test"
  /\ UNCHANGED << videos, appvars, mode, threshold, n, i, j, duplicate_pairs, upos,
                  parent, groups, duplicate_groups, duplicate_indices, ref,
                  simvars, auxvars >>

\* if not norm1 or not norm2: continue
SmartSkipPair ==
  /\ pc = "score"
  /\ mode = "smart"
  /\ SmartSkips(videos, i, j)
  /\ Advance
  /\ UNCHANGED << videos, appvars, mode, threshold, n, similarity, duplicate_pairs,
                  upos, parent, groups, duplicate_groups, duplicate_indices,
                  ref, simvars,
                  compared, auxvars >>

\* similarity = fuzz.token_set_ratio(norm1, norm2)
SmartScorePair ==
  /\ pc = "score"
  /\ mode = "smart"
  /\ ~SmartSkips(videos, i, j)
  /\ similarity' = SmartPairScore(videos, i, j)
  /\ compared' = Append(compared, << i, j >>)
  /\ pc' = "test"
  /\ UNCHANGED << videos, appvars, mode, threshold, n, i, j, duplicate_pairs, upos,
                  parent, groups, duplicate_groups, duplicate_indices, ref,
                  simvars, auxvars >>

\* if similarity >= threshold: duplicate_pairs.append((i, j, similarity))
TestPair ==
  /\ pc = "test"
  /\ duplicate_pairs' =
       IF Qualifies(similarity, threshold)
         THEN Append(duplicate_pairs, << i, j, similarity >>)
         ELSE duplicate_pairs
  /\ Advance
  /\ UNCHANGED << videos, appvars, mode, threshold, n, similarity, upos, parent,
                  groups, duplicate_groups, duplicate_indices, ref, simvars,
                  compared, auxvars >>

\* parent = list(range(n)), then on to the union loop or past it.
BuildParent ==
  /\ pc = "build"
  /\ parent' = InitParent(n)
  /\ upos' = 1
  /\ i' = IF duplicate_pairs # << >> THEN i ELSE 0
  /\ pc' = IF duplicate_pairs # << >> THEN "union"
           ELSE IF n > 0 THEN "collect" ELSE "return"
  /\ UNCHANGED << videos, appvars, mode, threshold, n, j, similarity, duplicate_pairs,
                  groups, duplicate_groups, duplicate_indices, ref, simvars,
                  compared, auxvars >>

\* for i, j, _ in duplicate_pairs: union(i, j)
UnionPair ==
  /\ pc = "union"
  /\ LET pr == duplicate_pairs[upos]
     IN  /\ parent' = union(parent, pr[1], pr[2])
         /\ j' = pr[2]
         /\ i' = IF upos = Len(duplicate_pairs) THEN 0 ELSE pr[1]
  /\ upos' = upos + 1
  /\ pc' = IF upos = Len(duplicate_pairs) THEN "collect" ELSE "union"
  /\ UNCHANGED << videos, appvars, mode, threshold, n, similarity, duplicate_pairs,
                  groups, duplicate_groups, duplicate_indices, ref, simvars,
                  compared, auxvars >>

\* for i in range(n): root = find(i); groups[root].append(i)
CollectIndex ==
  /\ pc = "collect"
  /\ LET r == find(parent, i)
     IN  /\ parent' = r.parent
         /\ groups' = AddToGroup(groups, r.root, i)
  /\ IF i + 1 < n
       THEN i' = i + 1 /\ pc' = "collect"
       ELSE i' = i /\ pc' = "return"
  /\ UNCHANGED << videos, appvars, mode, threshold, n, j, similarity, duplicate_pairs,
                  upos, duplicate_groups, duplicate_indices, ref, simvars,
                  compared, auxvars >>

\* return duplicate_groups, duplicate_indices
ReturnGroups ==
  /\ pc = "return"
  /\ duplicate_groups' = SelectGroups(groups)
  /\ duplicate_indices' = FlaggedOf(SelectGroups(groups))
  /\ pc' = "done"
  /\ UNCHANGED << videos, appvars, mode, threshold, n, i, j, similarity,
                  duplicate_pairs, upos, parent, groups, ref, simvars,
                  compared, auxvars >>

\* An observer keeps the arguments and the result of one completed call,
\* and whether a call with other arguments has run since.
Observe ==
  /\ pc = "done"
  /\ ref = << >>
  /\ ref' = << [videos |-> videos, mode |-> mode, threshold |-> threshold,
                groups |-> duplicate_groups, flagged |-> duplicate_indices,
                other |-> FALSE] >>
  /\ UNCHANGED << videos, appvars, mode, threshold, pc, n, i, j, similarity,
                  duplicate_pairs, upos, parent, groups, duplicate_groups,
                  duplicate_indices, simvars,
                  compared, auxvars >>

Init ==
  /\ videos \in Batches
  /\ mode = "basic"
  /\ threshold = DefaultThreshold
  /\ pc = "idle"
  /\ n = 0
  /\ i = 0
  /\ j = 0
  /\ similarity = -1
  /\ duplicate_pairs = << >>
  /\ upos = 0
  /\ parent = << >>
  /\ groups = << >>
  /\ duplicate_groups = << >>
  /\ duplicate_indices = {}
  /\ ref = << >>
  /\ arg1 = << >>
  /\ arg2 = << >>
  /\ ret = -1
  /\ compared = << >>
  /\ res = None
  /\ pending = {}
  /\ united = << >>
  /\ calls = << >>
  /\ frames = << >>
  /\ AppIdle

Next ==
  \/ \E th \in Thresholds : FindDuplicates(th)
  \/ \E th \in Thresholds : FindDuplicatesSmart(th)
  \/ ScorePair
  \/ SmartSkipPair
  \/ SmartScorePair
  \/ TestPair
  \/ BuildParent
  \/ UnionPair
  \/ CollectIndex
  \/ ReturnGroups

Spec == Init /\ [][Next]_vars

\* The titles of the batches an observer watches.
PureTitles == { TitleSong, TitleSongVariant, TitleNoise }

InitPure == Init /\ \A e \in DOMAIN videos : videos[e].title \in PureTitles

\* Calls as in Spec, with an observer of one of them.
NextPure == Next \/ Observe

SpecPure == InitPure /\ [][NextPure]_vars

(***************************************************************************)
(* find_duplicates run to completion on the batch v at threshold th, with  *)
(* the pair scores read from the table scores: the same loops, as one      *)
(* operator.                                                               *)
(***************************************************************************)
RECURSIVE PairsFrom(_, _, _)
\* The pairs (a, b), a < b < m, in the order the loops visit them.
PairsFrom(a, b, m) ==
  IF a >= m - 1 THEN << >>
  ELSE IF b >= m THEN PairsFrom(a + 1, a + 2, m)
  ELSE << << a, b >> >> \o PairsFrom(a, b + 1, m)

RECURSIVE UnionAll(_, _)
UnionAll(par, prs) ==
  IF prs = << >> THEN par
  ELSE UnionAll(union(par, Head(prs)[1], Head(prs)[2]), Tail(prs))

RECURSIVE CollectFrom(_, _, _, _)
CollectFrom(par, gs, e, m) ==
  IF e >= m THEN gs
  ELSE LET r == find(par, e)
       IN  CollectFrom(r.parent, AddToGroup(gs, r.root, e), e + 1, m)

RunClusterer(scores, v, th) ==
  LET m == len(v)
      prs == SelectSeq(PairsFrom(0, 1, m),
                       LAMBDA p : Qualifies(scores[<< v[p[1]].title,
                                                      v[p[2]].title >>], th))
      gs == CollectFrom(UnionAll(InitParent(m), prs), << >>, 0, m)
  IN  << SelectGroups(gs), FlaggedOf(SelectGroups(gs)) >>

(***************************************************************************)
(* calculate_similarity called directly on two titles.                     *)
(***************************************************************************)
\* The longest title of a direct call.
SimMaxLen == 2

SimAlphabet == { "x", " ", "|", "U+6B4C" }

RECURSIVE StringsUpTo(_)
StringsUpTo(m) ==
  IF m = 0 THEN { << >> }
  ELSE LET shorter == StringsUpTo(m - 1)
       IN  shorter \cup { Append(s, c) : s \in shorter, c \in SimAlphabet }

SimTitles == StringsUpTo(SimMaxLen) \cup { None }

CalculateSimilarity ==
  /\ ret = -1
  /\ ret' = calculate_similarity(arg1, arg2)
  /\ UNCHANGED << videos, appvars, mode, threshold, pc, n, i, j, similarity,
                  duplicate_pairs, upos, parent, groups, duplicate_groups,
                  duplicate_indices, ref, arg1, arg2, compared, auxvars >>

InitSim ==
  /\ videos = << >>
  /\ mode = "basic"
  /\ threshold = DefaultThreshold
  /\ pc = "idle"
  /\ n = 0
  /\ i = 0
  /\ j = 0
  /\ similarity = -1
  /\ duplicate_pairs = << >>
  /\ upos = 0
  /\ parent = << >>
  /\ groups = << >>
  /\ duplicate_groups = << >>
  /\ duplicate_indices = {}
  /\ ref = << >>
  /\ arg1 \in SimTitles
  /\ arg2 \in SimTitles
  /\ ret = -1
  /\ compared = << >>
  /\ res = None
  /\ pending = {}
  /\ united = << >>
  /\ calls = << >>
  /\ frames = << >>
  /\ AppIdle

NextSim == CalculateSimilarity

SpecSim == InitSim /\ [][NextSim]_vars


(***************************************************************************)
(* calculate_similarity called on two titles made of the same words.       *)
(***************************************************************************)
\* The most words of such a title.
MaxTokens == 3

\* The words: a letter, an ideograph, and two marks that are no word
\* characters.
OrderTokens == { << "x" >>, << "U+6B4C" >>, << "!" >>, << "?" >> }

RECURSIVE TokenSeqs(_)
\* The sequences of 1..m words.
TokenSeqs(m) ==
  IF m = 0 THEN { << >> }
  ELSE LET shorter == TokenSeqs(m - 1)
       IN  shorter \cup { Append(ts, w) : ts \in shorter, w \in OrderTokens }

\* The rearrangements of a sequence of words.
Rearranged(ts) ==
  { [k \in 1..Len(ts) |-> ts[f[k]]] :
      f \in { g \in [1..Len(ts) -> 1..Len(ts)] :
                \A a, b \in 1..Len(ts) : a # b => g[a] # g[b] } }

\* " ".join(words)
OrderTitles == { join(ts) : ts \in TokenSeqs(MaxTokens) \ { << >> } }

\* normalize_title on the titles above, each value computed once.
OrderNormOf == [t \in OrderTitles |-> normalize_title(t)] @@ << >>

InitOrder ==
  /\ \E ts \in TokenSeqs(MaxTokens) \ { << >> } :
       /\ arg1 = join(ts)
       /\ arg2 \in { join(us) : us \in Rearranged(ts) }
  /\ videos = << >>
  /\ mode = "basic"
  /\ threshold = DefaultThreshold
  /\ pc = "idle"
  /\ n = 0
  /\ i = 0
  /\ j = 0
  /\ similarity = -1
  /\ duplicate_pairs = << >>
  /\ upos = 0
  /\ parent = << >>
  /\ groups = << >>
  /\ duplicate_groups = << >>
  /\ duplicate_indices = {}
  /\ ref = << >>
  /\ ret = -1
  /\ compared = << >>
  /\ res = None
  /\ pending = {}
  /\ united = << >>
  /\ calls = << >>
  /\ frames = << >>
  /\ AppIdle

NextOrder == CalculateSimilarity

SpecOrder == InitOrder /\ [][NextOrder]_vars

(***************************************************************************)
(* normalize_title and extract_song_name called directly on a title.       *)
(***************************************************************************)
\* No invocation of a clusterer is running.
NoClusterer ==
  /\ videos = << >>
  /\ mode = "basic"
  /\ threshold = DefaultThreshold
  /\ pc = "idle"
  /\ n = 0
  /\ i = 0
  /\ j = 0
  /\ similarity = -1
  /\ duplicate_pairs = << >>
  /\ upos = 0
  /\ parent = << >>
  /\ groups = << >>
  /\ duplicate_groups = << >>
  /\ duplicate_indices = {}
  /\ ref = << >>
  /\ compared = << >>
  /\ pending = {}
  /\ united = << >>
  /\ calls = << >>
  /\ frames = << >>

\* The longest title spelled out character by character.
NormMaxLen == 4

\* Two letters of a noise word and an uppercase letter without a lowercase
\* form.
NormAlphabet == { "h", "d", "U+1D400" }

RECURSIVE NormStrings(_)
NormStrings(m) ==
  IF m = 0 THEN { << >> }
  ELSE LET shorter == NormStrings(m - 1)
       IN  shorter \cup { Append(s, c) : s \in shorter, c \in NormAlphabet }

\* "Official Live Video"
TitleOfficialLive ==
  << "O", "f", "f", "i", "c", "i", "a", "l", " ", "L", "i", "v", "e", " ",
     "V", "i", "d", "e", "o" >>

\* "X (Lyrics) U+00C9": a letter, a noise tag, an accented uppercase letter
TitleTagged ==
  << "X", " ", "(", "L", "y", "r", "i", "c", "s", ")", " ", "U+00C9" >>

NormTitles ==
  NormStrings(NormMaxLen) \cup Titles
    \cup { TitleOfficialLive, TitleTagged, None }

\* res = normalize_title(arg1)
NormalizeTitle ==
  /\ res = None
  /\ res' = normalize_title(arg1)
  /\ UNCHANGED << videos, appvars, mode, threshold, pc, n, i, j, similarity,
                  duplicate_pairs, upos, parent, groups, duplicate_groups,
                  duplicate_indices, ref, arg1, arg2, ret, compared, pending,
                  united, calls, frames >>

InitNorm ==
  /\ NoClusterer
  /\ arg1 \in NormTitles
  /\ arg2 = << >>
  /\ ret = -1
  /\ res = None
  /\ AppIdle

NextNorm == NormalizeTitle

SpecNorm == InitNorm /\ [][NextNorm]_vars

\* The most pieces a title of a direct call of extract_song_name is made of.
ExtMaxPieces == 4

\* The pieces: a letter, a space and an uppercase letter, the five
\* separators, and an opening bracket with a closing bracket of its kind and
\* one of another kind.
ExtPieces ==
  { << "a" >>, << " ", "B" >>, << "U+300A" >>, << "U+300B" >>, << "U+300D" >> }
    \cup Range(separators)

RECURSIVE ExtStrings(_)
ExtStrings(m) ==
  IF m = 0 THEN { << >> }
  ELSE LET shorter == ExtStrings(m - 1)
       IN  shorter \cup { s \o p : s \in shorter, p \in ExtPieces }

ExtTitles == ExtStrings(ExtMaxPieces) \cup { None }

\* res = extract_song_name(arg1)
ExtractSongName ==
  /\ res = None
  /\ res' = extract_song_name(arg1)
  /\ UNCHANGED << videos, appvars, mode, threshold, pc, n, i, j, similarity,
                  duplicate_pairs, upos, parent, groups, duplicate_groups,
                  duplicate_indices, ref, arg1, arg2, ret, compared, pending,
                  united, calls, frames >>

InitExtract ==
  /\ NoClusterer
  /\ arg1 \in ExtTitles
  /\ arg2 = << >>
  /\ ret = -1
  /\ res = None
  /\ AppIdle

NextExtract == ExtractSongName

SpecExtract == InitExtract /\ [][NextExtract]_vars

(***************************************************************************)
(* The union loop on its own: the collected pairs united in any order and  *)
(* with the two indices of a pair in either order, then the collect loop   *)
(* and the filter as in the source.                                        *)
(***************************************************************************)
\* The most indices and the most collected pairs.
MaxUnionN == 4
MaxUnionPairs == 3

\* The lists of collected pairs over m indices, in the order the comparison
\* loop appends them (the union loop does not read the score of a pair).
PairLists(m) ==
  { SelectSeq(PairsFrom(0, 1, m), LAMBDA p : p \in S) :
      S \in { T \in SUBSET Range(PairsFrom(0, 1, m)) :
                Cardinality(T) <= MaxUnionPairs } }

\* union(x, y) for the pair at position k of duplicate_pairs, or
\* union(y, x) when swapped.
UnionAny(k, swapped) ==
  /\ pc = "union"
  /\ k \in pending
  /\ LET x == IF swapped THEN duplicate_pairs[k][2] ELSE duplicate_pairs[k][1]
         y == IF swapped THEN duplicate_pairs[k][1] ELSE duplicate_pairs[k][2]
     IN  /\ parent' = union(parent, x, y)
         /\ united' = Append(united, << x, y >>)
  /\ pending' = pending \ { k }
  /\ UNCHANGED << videos, appvars, mode, threshold, pc, n, i, j, similarity,
                  duplicate_pairs, upos, groups, duplicate_groups,
                  duplicate_indices, ref, simvars, compared, res, calls,
                  frames >>

\* The collect loop, the filter and the flagged set, once every pair is
\* united (the array is not read again after the collect loop).
CollectAll ==
  /\ pc = "union"
  /\ pending = {}
  /\ groups' = CollectFrom(parent, << >>, 0, n)
  /\ duplicate_groups' = SelectGroups(groups')
  /\ duplicate_indices' = FlaggedOf(duplicate_groups')
  /\ pc' = "done"
  /\ UNCHANGED << videos, appvars, mode, threshold, n, i, j, similarity,
                  duplicate_pairs, upos, parent, ref, simvars, compared, res,
                  pending, united, calls, frames >>

InitUnion ==
  /\ videos = << >>
  /\ mode = "basic"
  /\ threshold = DefaultThreshold
  /\ pc = "union"
  /\ n \in 0..MaxUnionN
  /\ i = 0
  /\ j = 0
  /\ similarity = -1
  /\ duplicate_pairs \in PairLists(n)
  /\ upos = 0
  /\ parent = InitParent(n)
  /\ groups = << >>
  /\ duplicate_groups = << >>
  /\ duplicate_indices = {}
  /\ ref = << >>
  /\ arg1 = << >>
  /\ arg2 = << >>
  /\ ret = -1
  /\ compared = << >>
  /\ res = None
  /\ pending = 1..Len(duplicate_pairs)
  /\ united = << >>
  /\ calls = << >>
  /\ frames = << >>
  /\ AppIdle

NextUnion ==
  \/ \E k \in 1..MaxUnionPairs : \E swapped \in BOOLEAN : UnionAny(k, swapped)
  \/ CollectAll

SpecUnion == InitUnion /\ [][NextUnion]_vars

(***************************************************************************)
(* An invocation as a value: the locals of one call of find_duplicates or  *)
(* find_duplicates_smart, and the step that the actions above take on the  *)
(* variables, taken on such a record.                                      *)
(***************************************************************************)
\* The locals when the call is entered.
Locals(v, m, th) ==
  [videos |-> v, mode |-> m, threshold |-> th,
   pc |-> IF len(v) >= 2 THEN "score" ELSE "build",
   n |-> len(v), i |-> 0, j |-> 1, similarity |-> -1,
   duplicate_pairs |-> InitPairs, upos |-> 0, parent |-> << >>,
   groups |-> << >>, duplicate_groups |-> << >>, duplicate_indices |-> {}]

\* The loops move on to the next pair, or end.
AdvanceOf(st) ==
  IF st.j + 1 < st.n
    THEN [st EXCEPT !.j = st.j + 1, !.pc = "score"]
    ELSE IF st.i + 2 < st.n
      THEN [st EXCEPT !.i = st.i + 1, !.j = st.i + 2, !.pc = "score"]
      ELSE [st EXCEPT !.i = st.n - 1, !.pc = "build"]

\* One step of the call: a comparison, a test, the array, a union, a
\* collected index, or the return.
StepOf(st) ==
  CASE st.pc = "score" ->
         IF st.mode = "basic"
           THEN [st EXCEPT !.similarity = PairScore(st.videos, st.i, st.j),
                           !.pc = "test"]
           ELSE IF SmartSkips(st.videos, st.i, st.j)
             THEN AdvanceOf(st)
             ELSE [st EXCEPT
                     !.similarity = SmartPairScore(st.videos, st.i, st.j),
                     !.pc = "test"]
    [] st.pc = "test" ->
         AdvanceOf([st EXCEPT !.duplicate_pairs =
                      IF Qualifies(st.similarity, st.threshold)
                        THEN Append(@, << st.i, st.j, st.similarity >>)
                        ELSE @])
    [] st.pc = "build" ->
         [st EXCEPT !.parent = InitParent(st.n),
                    !.upos = 1,
                    !.i = IF st.duplicate_pairs # << >> THEN @ ELSE 0,
                    !.pc = IF st.duplicate_pairs # << >> THEN "union"
                           ELSE IF st.n > 0 THEN "collect" ELSE "return"]
    [] st.pc = "union" ->
         LET pr == st.duplicate_pairs[st.upos]
             last == st.upos = Len(st.duplicate_pairs)
         IN  [st EXCEPT !.parent = union(@, pr[1], pr[2]),
                        !.j = pr[2],
                        !.i = IF last THEN 0 ELSE pr[1],
                        !.upos = @ + 1,
                        !.pc = IF last THEN "collect" ELSE "union"]
    [] st.pc = "collect" ->
         LET r == find(st.parent, st.i)
         IN  [st EXCEPT !.parent = r.parent,
                        !.groups = AddToGroup(@, r.root, st.i),
                        !.i = IF st.i + 1 < st.n THEN @ + 1 ELSE @,
                        !.pc = IF st.i + 1 < st.n THEN "collect" ELSE "return"]
    [] st.pc = "return" ->
         [st EXCEPT !.duplicate_groups = SelectGroups(st.groups),
                    !.duplicate_indices = FlaggedOf(SelectGroups(st.groups)),
                    !.pc = "done"]
    [] OTHER -> st

RECURSIVE RunAlone(_)
\* The call run from st to its return with nothing else running.
RunAlone(st) == IF st.pc = "done" THEN st ELSE RunAlone(StepOf(st))

(***************************************************************************)
(* Concurrent invocations: each thread calls a clusterer once on a batch   *)
(* of its own, and the steps of the calls interleave.                      *)
(***************************************************************************)
Threads == { 1, 2 }

\* The longest batch of a concurrent invocation.
MaxConcN == 2

ConcBatches ==
  UNION { [0..(m - 1) -> { [title |-> t] : t \in PureTitles }] :
            m \in 0..MaxConcN }

\* The arguments a thread may call with: a batch, and find_duplicates or
\* find_duplicates_smart at its default threshold.
ConcArgs ==
  { [videos |-> v, mode |-> m,
     threshold |-> IF m = "basic" THEN DefaultThreshold
                   ELSE SmartDefaultThreshold,
     started |-> FALSE, overlap |-> FALSE] :
      v \in ConcBatches, m \in { "basic", "smart" } }

\* Every call holds its locals in one frame that all threads share.
SharedFrame(t) == 1

\* Every call holds its locals in a frame of its own.
Frame(t) == t

\* Some other thread is inside its call.
OtherRunning(t) ==
  \E u \in Threads \ { t } :
    calls[u].started /\ frames[Frame(u)].pc # "done"

\* Thread t enters its call.
Call(t) ==
  /\ ~calls[t].started
  /\ calls' = [calls EXCEPT ![t].started = TRUE]
  /\ frames' = [frames EXCEPT ![Frame(t)] =
                  Locals(calls[t].videos, calls[t].mode, calls[t].threshold)]
  /\ UNCHANGED << videos, appvars, mode, threshold, pc, n, i, j, similarity,
                  duplicate_pairs, upos, parent, groups, duplicate_groups,
                  duplicate_indices, ref, simvars, compared, res, pending,
                  united >>

\* Thread t takes the next step of its call.
Step(t) ==
  /\ calls[t].started
  /\ frames[Frame(t)].pc # "done"
  /\ frames' = [frames EXCEPT ![Frame(t)] = StepOf(@)]
  /\ calls' = [calls EXCEPT ![t].overlap = @ \/ OtherRunning(t)]
  /\ UNCHANGED << videos, appvars, mode, threshold, pc, n, i, j, similarity,
                  duplicate_pairs, upos, parent, groups, duplicate_groups,
                  duplicate_indices, ref, simvars, compared, res, pending,
                  united >>

InitConc ==
  /\ videos = << >>
  /\ mode = "basic"
  /\ threshold = DefaultThreshold
  /\ pc = "idle"
  /\ n = 0
  /\ i = 0
  /\ j = 0
  /\ similarity = -1
  /\ duplicate_pairs = << >>
  /\ upos = 0
  /\ parent = << >>
  /\ groups = << >>
  /\ duplicate_groups = << >>
  /\ duplicate_indices = {}
  /\ ref = << >>
  /\ arg1 = << >>
  /\ arg2 = << >>
  /\ ret = -1
  /\ compared = << >>
  /\ res = None
  /\ pending = {}
  /\ united = << >>
  /\ calls \in { c \in [Threads -> ConcArgs] :
                   \A t, u \in Threads : t # u => c[t].videos # c[u].videos }
  /\ frames = [t \in Threads |-> [pc |-> "idle"]]
  /\ AppIdle

NextConc == \E t \in Threads : Call(t) \/ Step(t)

SpecConc == InitConc /\ [][NextConc]_vars
(***************************************************************************)
(* The desktop UI (gui_app.py): App._update_video_list runs                *)
(* find_duplicates_smart on the analysed batch and builds one item per     *)
(* track.                                                                  *)
(***************************************************************************)
\* The longest batch the UI is given.
MaxGuiN == 4

\* Titles that cluster into more than one group, and one that normalizes to
\* nothing.
GuiTitles == { TitleSong, TitleNoise, TitleAaaba, TitleAbaab }

GuiBatches ==
  UNION { [0..(m - 1) -> { [title |-> t] : t \in GuiTitles }] :
            m \in 0..MaxGuiN }

\* find_duplicates_smart(videos, threshold=85)
GuiThreshold == 85

\* The first group that holds e, counted from 0.
FirstGroupIndex(dgs, e) ==
  (CHOOSE g \in 1..Len(dgs) :
     /\ e \in Range(dgs[g])
     /\ \A h \in 1..(g - 1) : e \notin Range(dgs[h])) - 1

\* group_id = g_idx
GroupIdZeroBased(dgs, e) ==
  IF \E g \in 1..Len(dgs) : e \in Range(dgs[g])
    THEN FirstGroupIndex(dgs, e)
    ELSE None

\* group_id = None; for g_idx, group in enumerate(duplicate_groups):
\*   if i in group: group_id = g_idx + 1; break
GroupId(dgs, e) ==
  IF \E g \in 1..Len(dgs) : e \in Range(dgs[g])
    THEN FirstGroupIndex(dgs, e) + 1
    ELSE None

\* VideoItem(self.video_scroll, video, i, is_duplicate=is_dup,
\*           group_id=group_id)
VideoItem(video, e, dgs, flagged) ==
  [video |-> video, index |-> e, is_duplicate |-> e \in flagged,
   group_id |-> IF e \in flagged THEN GroupId(dgs, e) ELSE None]

\* App._update_video_list(videos) up to the call of the clusterer: the old
\* items are cleared; "if not videos: ... return" ends the handler, and
\* otherwise find_duplicates_smart(videos, threshold=85) is entered.
update_video_list ==
  /\ pc = "idle"
  /\ IF len(videos) = 0
       THEN /\ pc' = "shown"
            /\ UNCHANGED << videos, appvars, mode, threshold, n, i, j,
                            similarity, duplicate_pairs, upos, parent, groups,
                            duplicate_groups, duplicate_indices, ref, simvars,
                            compared, auxvars >>
       ELSE FindDuplicatesSmart(GuiThreshold)

\* The loop "for i, video in enumerate(videos)" after the clusterer has
\* returned: one item per track, appended in order.
CreateVideoItems ==
  /\ pc = "done"
  /\ video_items' =
       [k \in 1..len(videos) |->
          VideoItem(videos[k - 1], k - 1, duplicate_groups,
                    duplicate_indices)]
  /\ pc' = "shown"
  /\ UNCHANGED << videos, mode, threshold, n, i, j, similarity,
                  duplicate_pairs, upos, parent, groups, duplicate_groups,
                  duplicate_indices, ref, simvars, compared, auxvars,
                  download, selected_folder_path, requests >>

\* The analysed batch is handed to the handler; nothing runs yet.
InitGui ==
  /\ videos \in GuiBatches
  /\ mode = "basic"
  /\ threshold = DefaultThreshold
  /\ pc = "idle"
  /\ n = 0
  /\ i = 0
  /\ j = 0
  /\ similarity = -1
  /\ duplicate_pairs = << >>
  /\ upos = 0
  /\ parent = << >>
  /\ groups = << >>
  /\ duplicate_groups = << >>
  /\ duplicate_indices = {}
  /\ ref = << >>
  /\ arg1 = << >>
  /\ arg2 = << >>
  /\ ret = -1
  /\ compared = << >>
  /\ res = None
  /\ pending = {}
  /\ united = << >>
  /\ calls = << >>
  /\ frames = << >>
  /\ AppIdle

\* The handler, with the steps of the clusterer it calls.
NextGui ==
  \/ update_video_list
  \/ SmartSkipPair
  \/ SmartScorePair
  \/ TestPair
  \/ BuildParent
  \/ UnionPair
  \/ CollectIndex
  \/ ReturnGroups
  \/ CreateVideoItems

SpecGui == InitGui /\ [][NextGui]_vars

(***************************************************************************)
(* The downloader (utils/downloader.py): download_media tries its          *)
(* strategies one after another.  What ensure_ffmpeg and yt-dlp do is the  *)
(* environment's choice: ffmpeg is found or not, and a download raises an  *)
(* error or completes, leaving files named after the title or none.        *)
(***************************************************************************)
\* strategies = [('android client', ...), ('web client', ...), ('default', {})]
strategies == << "android client", "web client", "default" >>

\* format_type: the four known values and any other.
FormatTypes == { "mp3", "mp4", "mp4_1080", "m4a", "other" }

\* extension, as the if/elif chain on format_type sets it.
ExtensionOf(format_type) ==
  CASE format_type = "mp3" -> "mp3"
    [] format_type = "mp4" -> "mp4"
    [] format_type = "mp4_1080" -> "mp4"
    [] format_type = "m4a" -> "m4a"
    [] OTHER -> "mp3"

\* if f.suffix.lower() in ['.mp3', '.mp4', '.m4a', '.webm']
AcceptedSuffixes == { "mp3", "mp4", "m4a", "webm" }

\* The suffixes a file named after the title may carry.
Suffixes == AcceptedSuffixes \cup { "part" }

\* What one ydl.download([url]) does: it raises an error whose message
\* holds '403' or does not, or it completes and has written the files
\* created (none, when nothing was there to download).
Outcomes ==
  { [kind |-> "error", has403 |-> b, created |-> {}] : b \in BOOLEAN }
    \cup { [kind |-> "completed", has403 |-> FALSE, created |-> c] :
             c \in { {} } \cup { { s } : s \in Suffixes } }

\* str(output_path) or str(f): the file named after the title with this
\* suffix.
PathOf(suffix) == << suffix >>

\* The loop moves on to the next strategy, or ends and None is returned.
NextStrategy(d) ==
  IF d.strategy < Len(strategies)
    THEN [d EXCEPT !.strategy = @ + 1]
    ELSE [d EXCEPT !.pc = "done", !.returned = None]

\* except Exception as e: if '403' in error_msg: continue; else: break
AfterError(d, has403) ==
  IF has403 THEN NextStrategy(d)
  ELSE [d EXCEPT !.pc = "done", !.returned = None]

\* download_media(url, video_id, title, output_dir, format_type) up to the
\* loop: without ffmpeg None is returned at once.
DownloadMedia(format_type, ffmpeg_path, existing) ==
  /\ download.pc \in { "idle", "done" }
  /\ download' =
       IF ffmpeg_path = None
         THEN [pc |-> "done", format_type |-> format_type,
               extension |-> "unbound", files |-> existing, strategy |-> 0,
               attempts |-> << >>, returned |-> None]
         ELSE [pc |-> "try", format_type |-> format_type,
               extension |-> ExtensionOf(format_type), files |-> existing,
               strategy |-> 1, attempts |-> << >>, returned |-> None]
  /\ UNCHANGED << videos, mode, threshold, pc, n, i, j, similarity,
                  duplicate_pairs, upos, parent, groups, duplicate_groups,
                  duplicate_indices, ref, simvars, compared, auxvars,
                  video_items, selected_folder_path, requests >>

\* One iteration of "for strategy_name, extra_opts in strategies": the
\* download, the look for output_path and for a file with another accepted
\* extension (glob yields them in any order), or the except branch.
TryStrategy(o) ==
  /\ download.pc = "try"
  /\ LET files == download.files \cup o.created
         tried == [download EXCEPT
                     !.files = files,
                     !.attempts =
                       Append(@, [strategy |-> strategies[download.strategy],
                                  kind |-> o.kind, has403 |-> o.has403,
                                  found |-> o.kind = "completed"
                                    /\ files \cap (AcceptedSuffixes
                                         \cup { download.extension }) # {}])]
     IN  IF o.kind = "error"
           THEN download' = AfterError(tried, o.has403)
           ELSE IF download.extension \in files
             THEN download' = [tried EXCEPT !.pc = "done",
                                            !.returned =
                                              PathOf(download.extension)]
             ELSE IF files \cap AcceptedSuffixes # {}
               THEN \E f \in files \cap AcceptedSuffixes :
                      download' = [tried EXCEPT !.pc = "done", !.returned = PathOf(f)]
               ELSE download' = NextStrategy(tried)
  /\ UNCHANGED << videos, mode, threshold, pc, n, i, j, similarity,
                  duplicate_pairs, upos, parent, groups, duplicate_groups,
                  duplicate_indices, ref, simvars, compared, auxvars,
                  video_items, selected_folder_path, requests >>

InitDownload ==
  /\ NoClusterer
  /\ arg1 = << >>
  /\ arg2 = << >>
  /\ ret = -1
  /\ res = None
  /\ AppIdle

NextDownload ==
  \/ \E format_type \in FormatTypes, ffmpeg_path \in { None, PathOf("ffmpeg") },
        existing \in { {}, { "part" } } :
       DownloadMedia(format_type, ffmpeg_path, existing)
  \/ \E o \in Outcomes : TryStrategy(o)

SpecDownload == InitDownload /\ [][NextDownload]_vars

(***************************************************************************)
(* The web application (app.py): a /api/browse-folder request starts a     *)
(* thread that opens a folder dialog and stores its answer in the module's *)
(* global selected_folder_path, waits for the thread up to 60 seconds, and *)
(* answers from the global.  The server handles requests in threads of     *)
(* their own, so the steps of several requests interleave.                 *)
(***************************************************************************)
\* The requests of a run.
MaxRequests == 2

Requests == 1..MaxRequests

\* The folders a user may pick.
Folders == { PathOf("a"), PathOf("b") }

\* A request not yet received.
NoRequest ==
  [pc |-> "idle", dialog |-> "none", folder_path |-> None,
   expired |-> FALSE, response |-> << >>]

\* jsonify({'path': selected_folder_path})
PathResponse(path) == [path |-> path, error |-> None]

\* jsonify({'path': None, 'error': 'No folder selected'})
NoFolderResponse == [path |-> None, error |-> PathOf("No folder selected")]

\* dialog_thread = threading.Thread(target=open_dialog); dialog_thread.start()
BrowseFolder(r) ==
  /\ requests[r].pc = "idle"
  /\ requests' = [requests EXCEPT ![r].pc = "join", ![r].dialog = "open"]
  /\ UNCHANGED << videos, mode, threshold, pc, n, i, j, similarity,
                  duplicate_pairs, upos, parent, groups, duplicate_groups,
                  duplicate_indices, ref, simvars, compared, auxvars,
                  video_items, download, selected_folder_path >>

\* open_dialog: askdirectory returns the folder picked, or '' when the
\* dialog is cancelled; the thread stores
\* "folder_path if folder_path else None" and ends.
OpenDialog(r, folder_path) ==
  /\ requests[r].dialog = "open"
  /\ requests' = [requests EXCEPT
                    ![r].dialog = IF folder_path # << >> THEN "chosen"
                                  ELSE "cancelled",
                    ![r].folder_path = folder_path]
  /\ selected_folder_path' = IF folder_path # << >> THEN folder_path ELSE None
  /\ UNCHANGED << videos, mode, threshold, pc, n, i, j, similarity,
                  duplicate_pairs, upos, parent, groups, duplicate_groups,
                  duplicate_indices, ref, simvars, compared, auxvars,
                  video_items, download >>

\* open_dialog: tkinter raises; the except branch stores None.
DialogError(r) ==
  /\ requests[r].dialog = "open"
  /\ requests' = [requests EXCEPT ![r].dialog = "failed"]
  /\ selected_folder_path' = None
  /\ UNCHANGED << videos, mode, threshold, pc, n, i, j, similarity,
                  duplicate_pairs, upos, parent, groups, duplicate_groups,
                  duplicate_indices, ref, simvars, compared, auxvars,
                  video_items, download >>

\* dialog_thread.join(timeout=60) returns: the thread has ended, or the 60
\* seconds have passed with the dialog still open.
Join(r) ==
  /\ requests[r].pc = "join"
  /\ requests' = [requests EXCEPT
                    ![r].pc = "test",
                    ![r].expired = requests[r].dialog = "open"]
  /\ UNCHANGED << videos, mode, threshold, pc, n, i, j, similarity,
                  duplicate_pairs, upos, parent, groups, duplicate_groups,
                  duplicate_indices, ref, simvars, compared, auxvars,
                  video_items, download, selected_folder_path >>

\* if selected_folder_path: ... else: return jsonify({'path': None, ...})
TestSelected(r) ==
  /\ requests[r].pc = "test"
  /\ requests' =
       IF selected_folder_path # None
         THEN [requests EXCEPT ![r].pc = "respond"]
         ELSE [requests EXCEPT ![r].pc = "done",
                               ![r].response = NoFolderResponse]
  /\ UNCHANGED << videos, mode, threshold, pc, n, i, j, similarity,
                  duplicate_pairs, upos, parent, groups, duplicate_groups,
                  duplicate_indices, ref, simvars, compared, auxvars,
                  video_items, download, selected_folder_path >>

\* return jsonify({'path': selected_folder_path}): the global is read again.
Respond(r) ==
  /\ requests[r].pc = "respond"
  /\ requests' = [requests EXCEPT
                    ![r].pc = "done",
                    ![r].response = PathResponse(selected_folder_path)]
  /\ UNCHANGED << videos, mode, threshold, pc, n, i, j, similarity,
                  duplicate_pairs, upos, parent, groups, duplicate_groups,
                  duplicate_indices, ref, simvars, compared, auxvars,
                  video_items, download, selected_folder_path >>

InitBrowse ==
  /\ NoClusterer
  /\ arg1 = << >>
  /\ arg2 = << >>
  /\ ret = -1
  /\ res = None
  /\ video_items = << >>
  /\ download = [pc |-> "idle"]
  /\ selected_folder_path = None
  /\ requests = [r \in Requests |-> NoRequest]

NextBrowse ==
  \E r \in Requests :
    \/ BrowseFolder(r)
    \/ \E folder_path \in Folders \cup { << >> } : OpenDialog(r, folder_path)
    \/ DialogError(r)
    \/ Join(r)
    \/ TestSelected(r)
    \/ Respond(r)

SpecBrowse == InitBrowse /\ [][NextBrowse]_vars

(***************************************************************************)
(* One batch clustered at several thresholds, with an observer of one of   *)
(* the calls: the titles score 0, 50, 60, 67, 80 and 100 against each      *)
(* other, and one normalizes to nothing.                                   *)
(***************************************************************************)
MonoTitles ==
  { TitleArtistSong, TitleSongVariant, TitleAaaba, TitleAbaab, TitleNoise }

InitMono == Init /\ \A e \in DOMAIN videos : videos[e].title \in MonoTitles

SpecMono == InitMono /\ [][NextPure]_vars

(***************************************************************************)
(* What the properties below speak of.                                     *)
(***************************************************************************)
\* An invocation has returned; duplicate_groups and duplicate_indices are
\* the returned values.
Done == pc = "done"

Indices == 0..(n - 1)

\* The members of the g-th returned group.
Members(g) == Range(duplicate_groups[g])

\* Two indices share a returned group.
SameGroup(a, b) ==
  \E g \in 1..Len(duplicate_groups) : a \in Members(g) /\ b \in Members(g)

\* The pair of two distinct indices scores at or above the threshold: in
\* basic mode by calculate_similarity on the titles, in smart mode by the
\* token-set ratio of the two normalized song names, which are scored only
\* when neither is empty.  The lower index comes first, as in the loops.
Linked(a, b) ==
  LET lo == IF a < b THEN a ELSE b
      hi == IF a < b THEN b ELSE a
      tp == << videos[lo].title, videos[hi].title >>
  IN  /\ a # b
      /\ IF mode = "basic"
           THEN SimilarityOf[tp] >= threshold
           ELSE /\ SongNormOf[tp[1]] # << >>
                /\ SongNormOf[tp[2]] # << >>
                /\ SongRatioOf[tp] >= threshold

RECURSIVE Closure(_)
\* The indices a chain of linked pairs reaches from the set S.
Closure(S) ==
  LET T == S \cup { b \in Indices : \E a \in S : Linked(a, b) }
  IN  IF T = S THEN S ELSE Closure(T)

Chained(a, b) == b \in Closure({ a })

\* The title the mode scores normalizes to the empty string.
EmptyNormalized(a) ==
  IF mode = "basic"
    THEN NormOf[videos[a].title] = << >>
    ELSE SongNormOf[videos[a].title] = << >>

(***************************************************************************)
(* C1. When an invocation has returned, in either mode and for every      *)
(* batch and threshold, the flagged set is exactly the union of the        *)
(* members of the returned groups.                                         *)
(***************************************************************************)
C1_FlaggedIsUnionOfGroups ==
  Done =>
    /\ \A e \in duplicate_indices :
         \E g \in 1..Len(duplicate_groups) : e \in Members(g)
    /\ \A g \in 1..Len(duplicate_groups) : Members(g) \subseteq duplicate_indices

\* A returned group of three, all flagged.
C1_Witness ==
  /\ Done
  /\ \E g \in 1..Len(duplicate_groups) : Cardinality(Members(g)) = 3
  /\ duplicate_indices = { 0, 1, 2 }

(***************************************************************************)
(* C2. Every returned group has at least 2 members: no returned group is   *)
(* empty or a singleton.                                                   *)
(***************************************************************************)
C2_GroupsHaveTwoMembers ==
  Done =>
    \A g \in 1..Len(duplicate_groups) :
      Len(duplicate_groups[g]) >= 2 /\ Cardinality(Members(g)) >= 2

\* A group is returned while a singleton of the group map is left out.
C2_Witness ==
  /\ Done
  /\ duplicate_groups # << >>
  /\ \E g \in 1..Len(groups) : Len(groups[g].indices) = 1

(***************************************************************************)
(* C3. Chain closure: two indices joined by a chain of pairs that each     *)
(* score at or above the threshold are returned in the same group, also    *)
(* when the two themselves score below it.                                 *)
(***************************************************************************)
C3_ChainClosure ==
  Done =>
    \A a, b \in Indices : (a # b /\ Chained(a, b)) => SameGroup(a, b)

\* A and C are joined only through B, and share a group.
C3_Witness ==
  /\ Done
  /\ \E a, b, c \in Indices :
       /\ Linked(a, b) /\ Linked(b, c) /\ a # c /\ ~Linked(a, c)
       /\ SameGroup(a, c)

(***************************************************************************)
(* C4. No spurious merge: two indices returned in the same group are       *)
(* joined by a chain of pairs that each score at or above the threshold.   *)
(***************************************************************************)
C4_NoSpuriousMerge ==
  Done =>
    \A a, b \in Indices : (a # b /\ SameGroup(a, b)) => Chained(a, b)

\* A group is returned and an index outside it is linked to none of its
\* members.
C4_Witness ==
  /\ Done
  /\ \E g \in 1..Len(duplicate_groups) :
       \E c \in Indices \ Members(g) :
         \A a \in Members(g) : ~Linked(a, c)

(***************************************************************************)
(* C5. An index is flagged if and only if it is in at least one pair that  *)
(* scores at or above the threshold; an index in no such pair is in no     *)
(* group and not flagged.                                                  *)
(***************************************************************************)
C5_FlaggedIffInQualifyingPair ==
  Done =>
    \A a \in Indices :
      /\ a \in duplicate_indices <=> \E b \in Indices : Linked(a, b)
      /\ (\A b \in Indices : ~Linked(a, b)) =>
           \A g \in 1..Len(duplicate_groups) : a \notin Members(g)

\* A pair scoring exactly the threshold is flagged, a third index is not.
C5_Witness ==
  /\ Done
  /\ threshold > 0
  /\ \E k \in 1..Len(duplicate_pairs) : duplicate_pairs[k][3] = threshold
  /\ duplicate_indices # {}
  /\ Indices \ duplicate_indices # {}

(***************************************************************************)
(* C6. For every threshold in 0..100 and both modes, a track whose         *)
(* title (the extracted song name in smart mode) normalizes to the empty   *)
(* string is in no returned group and not flagged.                         *)
(***************************************************************************)
C6_EmptyTitleNeverMatched ==
  Done =>
    \A a \in Indices :
      EmptyNormalized(a) =>
        /\ a \notin duplicate_indices
        /\ \A g \in 1..Len(duplicate_groups) : a \notin Members(g)

(***************************************************************************)
(* C7. Smart mode equals basic mode on the extracted names: the result of  *)
(* find_duplicates_smart on a batch is the result of find_duplicates on    *)
(* the batch whose titles are replaced by extract_song_name of them.       *)
(***************************************************************************)
C7_SmartIsBasicOnExtractedNames ==
  (Done /\ mode = "smart") =>
    << duplicate_groups, duplicate_indices >> =
      RunClusterer(ExtractedSimilarityOf, videos, threshold)

(***************************************************************************)
(* C8. For a batch of zero tracks or of one track, in both modes and for   *)
(* every threshold, the invocation returns no group and an empty flagged   *)
(* set.                                                                    *)
(***************************************************************************)
C8_SmallBatchReturnsNothing ==
  (Done /\ len(videos) <= 1) =>
    duplicate_groups = << >> /\ duplicate_indices = {}

\* A smart invocation on a batch of one track has returned.
C8_Witness == Done /\ len(videos) = 1 /\ mode = "smart" /\ Len(groups) = 1

(***************************************************************************)
(* C9. calculate_similarity returns an integer in 0..100, and 0 whenever   *)
(* at least one of the two titles normalizes to the empty string.          *)
(***************************************************************************)
C9_SimilarityInRangeAndZeroOnEmpty ==
  ret # -1 =>
    /\ ret \in 0..100
    /\ (normalize_title(arg1) = << >> \/ normalize_title(arg2) = << >>) =>
         ret = 0

\* Two titles that are not empty and both normalize to the empty string
\* have been scored.
C9_Witness ==
  /\ ret # -1
  /\ arg1 # << >> /\ arg1 # None /\ arg1 = arg2
  /\ normalize_title(arg1) = << >>

(***************************************************************************)
(* C10. The clusterer is a pure function: an invocation with the batch,    *)
(* threshold and mode of an observed earlier invocation returns what that  *)
(* one returned, whatever ran in between, and the caller's batch is as it  *)
(* was.                                                                    *)
(***************************************************************************)
C10_PureFunction ==
  ref # << >> =>
    /\ videos = ref[1].videos
    /\ (Done /\ mode = ref[1].mode /\ threshold = ref[1].threshold) =>
         /\ duplicate_groups = ref[1].groups
         /\ duplicate_indices = ref[1].flagged

\* After the observed call a call with other arguments ran, and a call
\* with the observed arguments has returned a group that leaves an index out.
C10_Witness ==
  /\ ref # << >>
  /\ ref[1].other
  /\ Done
  /\ mode = ref[1].mode
  /\ threshold = ref[1].threshold
  /\ duplicate_groups # << >>
  /\ Len(duplicate_groups[1]) < len(videos)


(***************************************************************************)
(* What the properties of the direct calls speak of.                       *)
(***************************************************************************)
\* The number of times the word w occurs in the sequence of words ws.
Occurrences(w, ws) == Cardinality({ k \in 1..Len(ws) : ws[k] = w })

\* Two normalized titles are not empty and hold the same words in another
\* order.
SameTokensOtherOrder(norm1, norm2) ==
  LET ws1 == split(norm1)
      ws2 == split(norm2)
  IN  /\ norm1 # << >>
      /\ norm2 # << >>
      /\ ws1 # ws2
      /\ Len(ws1) = Len(ws2)
      /\ \A w \in Range(ws1) \cup Range(ws2) :
           Occurrences(w, ws1) = Occurrences(w, ws2)

(***************************************************************************)
(* C13. The score is word-order insensitive: when the normalized forms of  *)
(* the two titles are not empty and hold the same whitespace-delimited     *)
(* words in a different order, calculate_similarity returns 100.           *)
(***************************************************************************)
C13_WordOrderInsensitive ==
  (ret # -1 /\ SameTokensOtherOrder(OrderNormOf[arg1], OrderNormOf[arg2])) =>
    ret = 100

(***************************************************************************)
(* C14. normalize_title returns a string without an uppercase character,   *)
(* and the empty string when the input is empty or None.                   *)
(***************************************************************************)
C14_NormalizedIsLowercase ==
  res # None =>
    /\ \A k \in 1..Len(res) : ~IsUpper(res[k])
    /\ IsFalsy(arg1) => res = << >>

\* Some rule of the noise-pattern list matches somewhere in the string s.
HasNoise(s) ==
  \E k \in 1..Len(NOISE_PATTERNS) : re_search(NOISE_PATTERNS[k], s)[1] # 0

(***************************************************************************)
(* C15. The string normalize_title returns has the noise removed: no rule  *)
(* of the noise-pattern list matches any substring of it.                  *)
(***************************************************************************)
C15_NoResidualNoise == res # None => ~HasNoise(res)

(***************************************************************************)
(* What the properties of extract_song_name speak of.                      *)
(***************************************************************************)
\* The bracket kinds: opening and closing bracket.
BracketKinds ==
  { << "U+300A", "U+300B" >>, << "U+300C", "U+300D" >>,
    << "U+3010", "U+3011" >> }

\* At p an opening bracket, at q a closing bracket of the same kind, and
\* something between them.
IsSpan(s, p, q) ==
  /\ p + 1 < q
  /\ \E kind \in BracketKinds : s[p] = kind[1] /\ s[q] = kind[2]

HasSpan(s) == \E p, q \in 1..Len(s) : IsSpan(s, p, q)

\* The inner content of the leftmost span, closed at the nearest closing
\* bracket of its kind.
LeftmostSpanContent(s) ==
  LET p == CHOOSE a \in 1..Len(s) :
             /\ \E q \in 1..Len(s) : IsSpan(s, a, q)
             /\ \A b \in 1..(a - 1) : \A q \in 1..Len(s) : ~IsSpan(s, b, q)
      q == CHOOSE c \in 1..Len(s) :
             IsSpan(s, p, c) /\ \A d \in 1..(c - 1) : ~IsSpan(s, p, d)
  IN  SubSeq(s, p + 1, q - 1)

\* The separator sep occurs in s at position p.
OccursAt(sep, s, p) ==
  /\ p + Len(sep) - 1 <= Len(s)
  /\ SubSeq(s, p, p + Len(sep) - 1) = sep

Occurs(sep, s) == \E p \in 1..Len(s) : OccursAt(sep, s, p)

\* The text after the first occurrence of the separator of highest priority
\* that occurs in s, trimmed.
AfterBestSeparator(s) ==
  LET k == CHOOSE h \in 1..Len(separators) :
             /\ Occurs(separators[h], s)
             /\ \A g \in 1..(h - 1) : ~Occurs(separators[g], s)
      p == CHOOSE a \in 1..Len(s) :
             /\ OccursAt(separators[k], s, a)
             /\ \A b \in 1..(a - 1) : ~OccursAt(separators[k], s, b)
  IN  strip(SubSeq(s, p + Len(separators[k]), Len(s)))

HasSeparator(s) == \E k \in 1..Len(separators) : Occurs(separators[k], s)

(***************************************************************************)
(* C16. extract_song_name returns the trimmed inner content of the         *)
(* leftmost span with an opening and a closing bracket of the same kind    *)
(* whenever the title holds such a span, whatever separators it holds;     *)
(* when the title holds no such span, the separator rule decides.          *)
(***************************************************************************)
C16_BracketSpanFirst ==
  (res # None /\ ~IsFalsy(arg1)) =>
    IF HasSpan(arg1)
      THEN res = strip(LeftmostSpanContent(arg1))
      ELSE res = SplitOnSeparators(arg1, 1)

(***************************************************************************)
(* C17. For a title without a bracket span, extract_song_name returns the  *)
(* trimmed text after the first occurrence of the separator that comes     *)
(* first in the priority list among those present, also when a separator   *)
(* of lower priority occurs earlier in the title.                          *)
(***************************************************************************)
C17_SeparatorPriority ==
  (res # None /\ ~IsFalsy(arg1) /\ ~HasSpan(arg1) /\ HasSeparator(arg1)) =>
    res = AfterBestSeparator(arg1)

(***************************************************************************)
(* C18. For a title with neither a bracket span nor a separator,           *)
(* extract_song_name returns the title unchanged; for an empty title it    *)
(* returns the empty string.                                               *)
(***************************************************************************)
C18_OtherwiseUnchanged ==
  res # None =>
    /\ (~IsFalsy(arg1) /\ ~HasSpan(arg1) /\ ~HasSeparator(arg1)) => res = arg1
    /\ arg1 = << >> => res = << >>

(***************************************************************************)
(* What the properties of the comparison loop speak of.                    *)
(***************************************************************************)
\* The comparison loop of the running invocation has ended.
LoopEnded == pc \in { "build", "union", "collect", "return", "done" }

\* The pair (a, b) is in the list of collected pairs.
Collected(a, b) ==
  \E k \in 1..Len(duplicate_pairs) :
    duplicate_pairs[k][1] = a /\ duplicate_pairs[k][2] = b

(***************************************************************************)
(* C19. In find_duplicates every pair of distinct indices is compared      *)
(* exactly once, as (i, j) with 0 <= i < j < n; a pair is collected if     *)
(* and only if its score is greater than or equal to the threshold; no     *)
(* pair with i >= j is ever compared or collected.                         *)
(***************************************************************************)
C19_EveryPairOnce ==
  mode = "basic" =>
    /\ \A k \in 1..Len(compared) :
         /\ 0 <= compared[k][1]
         /\ compared[k][1] < compared[k][2]
         /\ compared[k][2] < n
         /\ \A h \in 1..Len(compared) : compared[h] = compared[k] => h = k
    /\ \A k \in 1..Len(duplicate_pairs) :
         /\ duplicate_pairs[k][1] < duplicate_pairs[k][2]
         /\ << duplicate_pairs[k][1], duplicate_pairs[k][2] >> \in Range(compared)
    /\ LoopEnded =>
         \A a, b \in Indices :
           a < b =>
             /\ << a, b >> \in Range(compared)
             /\ Collected(a, b) <=>
                  SimilarityOf[<< videos[a].title, videos[b].title >>]
                    >= threshold

\* Three pairs were compared: one scoring exactly the threshold was
\* collected and one scoring below it was not.
C19_Witness ==
  /\ mode = "basic"
  /\ Done
  /\ Len(compared) = 3
  /\ threshold > 0
  /\ \E k \in 1..Len(duplicate_pairs) : duplicate_pairs[k][3] = threshold
  /\ \E a, b \in Indices : a < b /\ ~Collected(a, b)

(***************************************************************************)
(* What the property of the union loop speaks of.                          *)
(***************************************************************************)
\* The index sets of a list of groups.
GroupSets(dgs) == { Range(dgs[g]) : g \in 1..Len(dgs) }

\* The groups the source returns for the collected pairs: the pairs united
\* in list order, each as union(i, j).
GroupsInListOrder ==
  SelectGroups(
    CollectFrom(UnionAll(InitParent(n), duplicate_pairs), << >>, 0, n))

(***************************************************************************)
(* C20. The partition the union-find phase produces depends neither on     *)
(* the order in which the collected pairs are united nor on which root is  *)
(* attached under which: every order and either direction give the set of  *)
(* groups that the list order with union(i, j) gives.                      *)
(***************************************************************************)
C20_UnionOrderIrrelevant ==
  (pc = "done" /\ Len(united) = Len(duplicate_pairs)) =>
    GroupSets(duplicate_groups) = GroupSets(GroupsInListOrder)

\* Three pairs were united last to first, each as union(j, i), and put all
\* four indices into two groups or one.
C20_Witness ==
  /\ pc = "done"
  /\ Len(duplicate_pairs) = 3
  /\ \A k \in 1..3 :
       united[k] = << duplicate_pairs[4 - k][2], duplicate_pairs[4 - k][1] >>
  /\ duplicate_indices = 0..3

(***************************************************************************)
(* C11. When invocations on different batches run concurrently with their  *)
(* steps interleaved, each returns what it returns when it runs alone.     *)
(***************************************************************************)
C11_ConcurrentCallsIndependent ==
  \A t \in Threads :
    (calls[t].started /\ frames[Frame(t)].pc = "done") =>
      LET alone == RunAlone(Locals(calls[t].videos, calls[t].mode,
                                   calls[t].threshold))
      IN  /\ frames[Frame(t)].duplicate_groups = alone.duplicate_groups
          /\ frames[Frame(t)].duplicate_indices = alone.duplicate_indices

\* Both threads have returned, each took steps while the other was inside
\* its call, and one returned a group while the other returned none.
C11_Witness ==
  /\ \A t \in Threads :
       calls[t].started /\ calls[t].overlap /\ frames[Frame(t)].pc = "done"
  /\ frames[Frame(1)].duplicate_groups # << >>
  /\ frames[Frame(2)].duplicate_groups = << >>
  /\ calls[2].videos # << >>

(***************************************************************************)
(* C12. Batch order carries no meaning: for every batch and every          *)
(* permutation of its tracks, clustering the permuted batch gives, as sets *)
(* of index sets, the images under the permutation of the groups and of    *)
(* the flagged set of the original batch.                                  *)
(***************************************************************************)
C12_PermutationInvariant ==
  Done =>
    \A p \in { f \in [Indices -> Indices] :
                 \A a, b \in Indices : a # b => f[a] # f[b] } :
      LET permuted == [e \in Indices |-> videos[p[e]]]
          r == RunAlone(Locals(permuted, mode, threshold))
          image(S) == { e \in Indices : p[e] \in S }
      IN  /\ GroupSets(r.duplicate_groups) =
               { image(G) : G \in GroupSets(duplicate_groups) }
          /\ r.duplicate_indices = image(duplicate_indices)
(***************************************************************************)
(* The desktop UI's items against the clusterer's result.                  *)
(***************************************************************************)
\* Items e and f of the list are in one returned group.
InSameReturnedGroup(e, f) ==
  \E g \in 1..Len(duplicate_groups) :
    e \in Range(duplicate_groups[g]) /\ f \in Range(duplicate_groups[g])

\* C21: in _update_video_list an item is marked duplicate iff its index is
\* flagged; a marked item has a group number in 1..number of groups, two
\* marked items have the same number iff they are in the same returned
\* group, and an unmarked item has no group number.
C21_ItemsCarryGroupNumbers ==
  \A k \in DOMAIN video_items :
    LET item == video_items[k]
    IN  /\ item.index = k - 1
        /\ item.is_duplicate <=> item.index \in duplicate_indices
        /\ item.is_duplicate => item.group_id \in 1..Len(duplicate_groups)
        /\ ~item.is_duplicate => item.group_id = None
        /\ \A l \in DOMAIN video_items :
             (item.is_duplicate /\ video_items[l].is_duplicate) =>
               (item.group_id = video_items[l].group_id
                  <=> InSameReturnedGroup(item.index, video_items[l].index))

\* Four items in two groups, numbered 1 and 2.
C21_Witness ==
  /\ Len(video_items) = 4
  /\ Len(duplicate_groups) = 2
  /\ video_items[1].group_id = 1
  /\ video_items[2].group_id = 2
  /\ video_items[3].group_id = 1
  /\ video_items[4].group_id = 2

(***************************************************************************)
(* The downloader's strategies.                                            *)
(***************************************************************************)
\* The attempts made are the strategies in their listed order.
TriedInOrder ==
  /\ Len(download.attempts) <= Len(strategies)
  /\ \A k \in 1..Len(download.attempts) :
       download.attempts[k].strategy = strategies[k]

\* C22: download_media tries android client, web client, default in this
\* order; it moves on to the next strategy only after the current one
\* failed with an error whose message contains '403', tries none after any
\* other error, and returns None when no strategy produced a file.
C22_NextStrategyOnlyAfter403 ==
  download.pc # "idle" =>
    /\ TriedInOrder
    /\ \A k \in 2..Len(download.attempts) :
         /\ download.attempts[k - 1].kind = "error"
         /\ download.attempts[k - 1].has403
    /\ (download.pc = "done"
          /\ \A k \in 1..Len(download.attempts) : ~download.attempts[k].found)
         => download.returned = None

\* As C22, for the calls in which every download that completed left a
\* file with an accepted extension.
C22_WhenCompletedLeavesFile ==
  (download.pc # "idle"
     /\ \A k \in 1..Len(download.attempts) :
          download.attempts[k].kind = "completed" => download.attempts[k].found)
    => C22_NextStrategyOnlyAfter403

(***************************************************************************)
(* The answers of /api/browse-folder.                                      *)
(***************************************************************************)
\* C23: the response of a /api/browse-folder request reports the folder
\* chosen in the dialog this request opened, reports path None with
\* 'No folder selected' when that dialog was cancelled, failed or was still
\* open when the 60-second wait expired, and never a folder chosen in
\* another request's dialog.
C23_ResponseIsOwnDialog ==
  \A r \in Requests :
    requests[r].pc = "done" =>
      IF requests[r].dialog = "chosen" /\ ~requests[r].expired
        THEN requests[r].response = PathResponse(requests[r].folder_path)
        ELSE requests[r].response = NoFolderResponse

(***************************************************************************)
(* The returned groups as a partition.                                     *)
(***************************************************************************)
RECURSIVE SumOfSizes(_)
\* The sum of the lengths of the groups.
SumOfSizes(dgs) ==
  IF dgs = << >> THEN 0 ELSE Len(Head(dgs)) + SumOfSizes(Tail(dgs))

\* C24: the returned groups are pairwise disjoint and each lists an index
\* at most once, so every index 0..n-1 is in at most one returned group and
\* the number of flagged indices is the sum of the group sizes.
C24_GroupsDisjoint ==
  pc = "done" =>
    /\ \A g \in 1..Len(duplicate_groups) :
         /\ Range(duplicate_groups[g]) \subseteq 0..(n - 1)
         /\ Cardinality(Range(duplicate_groups[g])) = Len(duplicate_groups[g])
    /\ \A g, h \in 1..Len(duplicate_groups) :
         g # h => Range(duplicate_groups[g]) \cap Range(duplicate_groups[h]) = {}
    /\ Cardinality(duplicate_indices) = SumOfSizes(duplicate_groups)

\* Two groups are returned.
C24_Witness ==
  /\ pc = "done"
  /\ Len(duplicate_groups) = 2
  /\ Cardinality(duplicate_indices) = 4

(***************************************************************************)
(* The same batch at two thresholds.                                       *)
(***************************************************************************)
\* The call that has returned and the observed one ran in the same mode,
\* the observed one at a threshold no higher.
ObservedAtMost ==
  /\ pc = "done"
  /\ ref # << >>
  /\ ref[1].videos = videos
  /\ ref[1].mode = mode
  /\ ref[1].threshold <= threshold

\* C25: raising the threshold never merges more: for thresholds t1 <= t2
\* the flagged set at t2 is a subset of the flagged set at t1 and every
\* group returned at t2 lies within a single group returned at t1.
C25_ThresholdMonotonic ==
  ObservedAtMost =>
    /\ duplicate_indices \subseteq ref[1].flagged
    /\ \A g \in 1..Len(duplicate_groups) :
         \E h \in 1..Len(ref[1].groups) :
           Range(duplicate_groups[g]) \subseteq Range(ref[1].groups[h])

\* A higher threshold has split off part of a group: a group is still
\* returned, and fewer indices are flagged.
C25_Witness ==
  /\ ObservedAtMost
  /\ ref[1].threshold < threshold
  /\ duplicate_groups # << >>
  /\ duplicate_indices # ref[1].flagged

(***************************************************************************)
(* The parent array as a forest.                                           *)
(***************************************************************************)
RECURSIVE ClimbTo(_, _, _)
\* The self-parented index reached from x in at most k steps along the
\* parent pointers, or -1 when there is none.
ClimbTo(par, x, k) ==
  IF par[x] = x THEN x
  ELSE IF k = 0 THEN -1
  ELSE ClimbTo(par, par[x], k - 1)

\* Every entry is an index and every index reaches a root in at most m
\* steps.
IsForest(par, m) ==
  /\ DOMAIN par = 0..(m - 1)
  /\ \A x \in 0..(m - 1) : par[x] \in 0..(m - 1)
  /\ \A x \in 0..(m - 1) : ClimbTo(par, x, m) # -1

\* The array exists: the union loop, the collect loop or the return.
InUnionPhase == pc \in { "union", "collect", "return", "done" }

\* C26: at every point of the union phase the parent array is a forest over
\* 0..n-1 (every entry a valid index, every index reaching a self-parented
\* root in at most n steps), so every find call terminates; and a find call
\* on any index returns that index's root, leaves a forest and changes no
\* index's root.
C26_ParentIsForest ==
  InUnionPhase =>
    /\ IsForest(parent, n)
    /\ \A x \in 0..(n - 1) :
         LET r == find(parent, x)
         IN  /\ r.root = ClimbTo(parent, x, n)
             /\ IsForest(r.parent, n)
             /\ \A y \in 0..(n - 1) :
                  ClimbTo(r.parent, y, n) = ClimbTo(parent, y, n)

\* In the collect loop an index is two steps from its root: find recurses
\* and compresses its path.
C26_Witness ==
  /\ pc = "collect"
  /\ \E x \in 0..(n - 1) :
       /\ parent[x] # x
       /\ parent[parent[x]] # parent[x]
       /\ find(parent, x).parent # parent

====
